---------------------------- MODULE Spec2Model ----------------------------
(***************************************************************************)
(* CHIP-8 emulator: Memory, Display, Input_ and CPU of src/core, modelled  *)
(* as a state machine.  Every Python method is an operator from a machine  *)
(* record (the four objects plus the exception in flight) to the machine   *)
(* record after the call; an action commits the record a call returns.     *)
(***************************************************************************)
EXTENDS Integers, Sequences, FiniteSets, TLC

VARIABLES cpu, memory, display, input_, emulator, result

vars == <<cpu, memory, display, input_, emulator, result>>

(***************************************************************************)
(* configs.py                                                              *)
(***************************************************************************)
MEMORY_SIZE_IN_BYTES == 4096

ROM_START_IDX == 512

FONTSET_START_ADDRESS == 80

REGISTER_COUNT == 16

STACK_SIZE == 16

VF_IDX == 15

FONTSET ==
    << 240, 144, 144, 144, 240,    32,  96,  32,  32, 112,
       240,  16, 240, 128, 240,   240,  16, 240,  16, 240,
       144, 144, 240,  16,  16,   240, 128, 240,  16, 240,
       240, 128, 240, 144, 240,   240,  16,  32,  64,  64,
       240, 144, 240, 144, 240,   240, 144, 240,  16, 240,
       240, 144, 240, 144, 144,   224, 144, 224, 144, 224,
       240, 128, 128, 128, 240,   224, 144, 144, 144, 224,
       240, 128, 240, 128, 240,   240, 128, 240, 128, 128 >>

(***************************************************************************)
(* Python integer operators on non-negative integers                       *)
(***************************************************************************)
RECURSIVE BitAnd(_, _)
BitAnd(a, b) ==
    IF a = 0 \/ b = 0 THEN 0
    ELSE (a % 2) * (b % 2) + 2 * BitAnd(a \div 2, b \div 2)

RECURSIVE BitOr(_, _)
BitOr(a, b) ==
    IF a = 0 THEN b
    ELSE IF b = 0 THEN a
    ELSE (IF a % 2 = 1 \/ b % 2 = 1 THEN 1 ELSE 0) + 2 * BitOr(a \div 2, b \div 2)

RECURSIVE BitXor(_, _)
BitXor(a, b) ==
    IF a = 0 THEN b
    ELSE IF b = 0 THEN a
    ELSE ((a + b) % 2) + 2 * BitXor(a \div 2, b \div 2)

RECURSIVE Pow(_, _)
Pow(b, n) == IF n = 0 THEN 1 ELSE b * Pow(b, n - 1)

ShiftRight(a, n) == a \div Pow(2, n)

ShiftLeft(a, n) == a * Pow(2, n)

(***************************************************************************)
(* Exceptions.  A call either returns or raises; a raised exception is     *)
(* carried in the err field and ends the enclosing calls.                  *)
(***************************************************************************)
NoError == "none"

UnsupportedOpcodeError == "UnsupportedOpcodeError"

MemoryOutOfBoundsError == "MemoryOutOfBoundsError"

ByteOverflowError == "ByteOverflowError"

RuntimeError == "RuntimeError"

IndexError == "IndexError"

KeyError == "KeyError"

Return(v) == [err |-> NoError, val |-> v]

Raise(e) == [err |-> e, val |-> 0]

\* No key: the None that check_keystates_changed returns
None == -1

(***************************************************************************)
(* Memory (core/memory.py).  _memory is a Python list, here a function on  *)
(* 0 .. len-1.                                                             *)
(***************************************************************************)
ListLen(l) == Cardinality(DOMAIN l)

_load_fontset(mem) ==
    [a \in DOMAIN mem |->
        IF a >= FONTSET_START_ADDRESS /\ a < FONTSET_START_ADDRESS + 5 * 16
        THEN FONTSET[(a - FONTSET_START_ADDRESS) + 1]
        ELSE mem[a]]

MemoryInit ==
    [_memory    |-> _load_fontset([a \in 0 .. MEMORY_SIZE_IN_BYTES - 1 |-> 0]),
     rom_loaded |-> FALSE]

\* l[start:end] = bytes, for start <= len(l): the slice start .. min(end, len)-1
\* is replaced by all of bytes, the tail after it is kept
SliceAssign(l, start, end, bytes) ==
    LET n    == ListLen(l)
        stop == IF end < n THEN end ELSE n
        k    == Len(bytes)
    IN  [a \in 0 .. (start + k + (n - stop)) - 1 |->
            IF a < start THEN l[a]
            ELSE IF a < start + k THEN bytes[(a - start) + 1]
            ELSE l[stop + (a - (start + k))]]

\* a load that copies the image whether or not one was loaded before
load_rom_again(mem, byte_array) ==
    LET end_idx == ROM_START_IDX + Len(byte_array)
    IN  [_memory    |-> SliceAssign(mem._memory, ROM_START_IDX, end_idx, byte_array),
         rom_loaded |-> TRUE]

load_rom(mem, byte_array) ==
    IF mem.rom_loaded THEN mem
    ELSE LET end_idx == ROM_START_IDX + Len(byte_array)
         IN  [_memory    |-> SliceAssign(mem._memory, ROM_START_IDX, end_idx, byte_array),
              rom_loaded |-> TRUE]

\* the position that l[idx] names in a Python list: a negative idx counts
\* from the end
Subscript(l, idx) == IF idx < 0 THEN idx + ListLen(l) ELSE idx

\* l[idx] exists; where it does not, the subscript raises IndexError
HasItem(l, idx) == Subscript(l, idx) \in DOMAIN l

read_byte(mem, addr) ==
    IF addr >= MEMORY_SIZE_IN_BYTES THEN Raise(MemoryOutOfBoundsError)
    ELSE IF ~HasItem(mem._memory, addr) THEN Raise(IndexError)
    ELSE Return(mem._memory[Subscript(mem._memory, addr)])

\* a word read with the low byte first
read_word_low_first(mem, addr) ==
    IF addr + 2 > MEMORY_SIZE_IN_BYTES THEN Raise(MemoryOutOfBoundsError)
    ELSE IF ~HasItem(mem._memory, addr) \/ ~HasItem(mem._memory, addr + 1)
    THEN Raise(IndexError)
    ELSE Return(BitOr(ShiftLeft(mem._memory[Subscript(mem._memory, addr + 1)], 8),
                      mem._memory[Subscript(mem._memory, addr)]))

read_word(mem, addr) ==
    IF addr + 2 > MEMORY_SIZE_IN_BYTES THEN Raise(MemoryOutOfBoundsError)
    ELSE IF ~HasItem(mem._memory, addr) \/ ~HasItem(mem._memory, addr + 1)
    THEN Raise(IndexError)
    ELSE Return(BitOr(ShiftLeft(mem._memory[Subscript(mem._memory, addr)], 8),
                      mem._memory[Subscript(mem._memory, addr + 1)]))

\* a write that stores any value
write_byte_any_value(mem, addr, value) ==
    IF addr >= MEMORY_SIZE_IN_BYTES THEN [err |-> MemoryOutOfBoundsError, mem |-> mem]
    ELSE IF ~HasItem(mem._memory, addr) THEN [err |-> IndexError, mem |-> mem]
    ELSE [err |-> NoError,
          mem |-> [mem EXCEPT !._memory[Subscript(mem._memory, addr)] = value]]

\* returns the memory object after the call, with the exception raised
write_byte(mem, addr, value) ==
    IF addr >= MEMORY_SIZE_IN_BYTES THEN [err |-> MemoryOutOfBoundsError, mem |-> mem]
    ELSE IF value > 255 \/ value < 0 THEN [err |-> ByteOverflowError, mem |-> mem]
    ELSE IF ~HasItem(mem._memory, addr) THEN [err |-> IndexError, mem |-> mem]
    ELSE [err |-> NoError,
          mem |-> [mem EXCEPT !._memory[Subscript(mem._memory, addr)] = value]]

get_sprite_address(digit) == FONTSET_START_ADDRESS + 5 * digit

(***************************************************************************)
(* Display (core/display.py)                                               *)
(***************************************************************************)
BlankScreen == [y \in 0 .. 31 |-> [x \in 0 .. 63 |-> FALSE]]

DisplayInit == [screen |-> BlankScreen, prev_screen |-> BlankScreen]

\* a clear that also forgets the frame last shown
clear_screen_both_frames(disp) ==
    [disp EXCEPT !.screen = BlankScreen, !.prev_screen = BlankScreen]

clear_screen(disp) == [disp EXCEPT !.screen = BlankScreen]

\* format(b, "08b"): the binary digits of b, most significant first,
\* left-padded with zeros to at least 8 characters
RECURSIVE BinDigits(_)
BinDigits(b) == IF b < 2 THEN <<b>> ELSE Append(BinDigits(b \div 2), b % 2)

RECURSIVE ZeroPad(_, _)
ZeroPad(s, w) == IF Len(s) >= w THEN s ELSE ZeroPad(<<0>> \o s, w)

\* the digits least significant first
RECURSIVE Reversed(_)
Reversed(q) == IF q = <<>> THEN <<>> ELSE Append(Reversed(Tail(q)), Head(q))

Format08b_lsb_first(b) == Reversed(ZeroPad(BinDigits(b), 8))

Format08b(b) == ZeroPad(BinDigits(b), 8)

\* The local variables of a draw_sprite call and the screen it works on are
\* one record loc: loc.collided, the row index loc.i, and loc.screen.

\* the test made after the pixel has been flipped
Collides_after_flip(loc, x0, y0, j, bytes_str) ==
    /\ (loc.screen[(y0 + loc.i) % 32][(x0 + j) % 64] # (bytes_str[j + 1] = 1))
    /\ bytes_str[j + 1] # 0

\* if self.screen[y][x] and int(bytes_str[j])
Collides(loc, x0, y0, j, bytes_str) ==
    loc.screen[(y0 + loc.i) % 32][(x0 + j) % 64] /\ bytes_str[j + 1] # 0

\* the pixel switched on instead of flipped
Flip_or(loc, x0, y0, j, bytes_str) ==
    [loc EXCEPT !.screen[(y0 + loc.i) % 32][(x0 + j) % 64] = (@ \/ (bytes_str[j + 1] = 1))]

\* self.screen[y][x] ^= True if bytes_str[j] == "1" else False
Flip(loc, x0, y0, j, bytes_str) ==
    [loc EXCEPT !.screen[(y0 + loc.i) % 32][(x0 + j) % 64] = (@ # (bytes_str[j + 1] = 1))]

\* the inner loop from column j on
RECURSIVE DrawRow(_, _, _, _, _)
DrawRow(loc, x0, y0, j, bytes_str) ==
    IF j >= Len(bytes_str) THEN loc
    ELSE IF Collides(loc, x0, y0, j, bytes_str)
    THEN DrawRow(Flip([loc EXCEPT !.collided = TRUE], x0, y0, j, bytes_str),
                 x0, y0, j + 1, bytes_str)
    ELSE DrawRow(Flip(loc, x0, y0, j, bytes_str), x0, y0, j + 1, bytes_str)

\* the outer loop from row loc.i on
RECURSIVE DrawRows(_, _, _, _)
DrawRows(loc, x0, y0, byte_array) ==
    IF loc.i >= Len(byte_array) THEN loc
    ELSE DrawRows([DrawRow(loc, x0, y0, 0, Format08b(byte_array[loc.i + 1]))
                        EXCEPT !.i = @ + 1],
                  x0, y0, byte_array)

\* returns the display after the call and the collision flag
draw_sprite(disp, x0, y0, byte_array) ==
    LET r == DrawRows([collided |-> FALSE, i |-> 0, screen |-> disp.screen],
                      x0, y0, byte_array)
    IN  [collided |-> r.collided, disp |-> [disp EXCEPT !.screen = r.screen]]

\* the text printed for a pixel that is on: two full-block characters
LitCell == "##"

\* the text printed for a pixel that is off: two spaces
DarkCell == "  "

\* the cells <<i, j>> that the loops of refresh() find changed
ChangedCells(disp) ==
    { c \in (0 .. 31) \X (0 .. 63) :
        disp.screen[c[1]][c[2]] # disp.prev_screen[c[1]][c[2]] }

\* what refresh() prints for the changed cell <<i, j>>: the cursor escape
\* with row i + 1 and column j * 2 + 1, then the text of the pixel
PrintCell(disp, c) ==
    <<c[1] + 1, c[2] * 2 + 1, IF disp.screen[c[1]][c[2]] THEN LitCell ELSE DarkCell>>

\* refresh() that prints every pixel that is on
Printed_all_lit(disp) ==
    LET cells == { c \in (0 .. 31) \X (0 .. 63) : disp.screen[c[1]][c[2]] }
    IN  [k \in 1 .. Cardinality(cells) |->
            PrintCell(disp, CHOOSE c \in cells :
                Cardinality({ d \in cells :
                    d[1] < c[1] \/ (d[1] = c[1] /\ d[2] < c[2]) }) = k - 1)]

\* the prints of refresh(), in order: rows from the top, columns from the
\* left
Printed(disp) ==
    LET cells == ChangedCells(disp)
    IN  [k \in 1 .. Cardinality(cells) |->
            PrintCell(disp, CHOOSE c \in cells :
                Cardinality({ d \in cells :
                    d[1] < c[1] \/ (d[1] = c[1] /\ d[2] < c[2]) }) = k - 1)]

\* returns the display after the call, with what the call printed
refresh(disp) ==
    [printed |-> Printed(disp),
     disp    |-> [disp EXCEPT !.prev_screen = disp.screen]]

(***************************************************************************)
(* Input_ (core/input_.py).  keys is what the keyboard backend answers     *)
(* during the call: the set of CHIP-8 keys held down.                      *)
(***************************************************************************)
NotStarted == <<>>

InputInit == [last_key_states |-> NotStarted]

key_pressed(keys, key) ==
    IF key \notin 0 .. 15 THEN Raise(KeyError) ELSE Return(key \in keys)

\* a negated query that answers as key_pressed does
key_not_pressed_same(keys, key) == key_pressed(keys, key)

key_not_pressed(keys, key) ==
    LET r == key_pressed(keys, key)
    IN  IF r.err # NoError THEN r ELSE Return(~r.val)

_key_states(keys) == [k \in 0 .. 15 |-> k \in keys]

start_waiting(inp, keys) == [inp EXCEPT !.last_key_states = _key_states(keys)]

\* the for loop of check_keystates_changed from idx on
RECURSIVE ScanKeyStates(_, _, _)
ScanKeyStates(curr_key_states, last_key_states, idx) ==
    IF idx >= ListLen(curr_key_states) THEN None
    ELSE IF curr_key_states[idx] /\ ~last_key_states[idx] THEN idx
    ELSE ScanKeyStates(curr_key_states, last_key_states, idx + 1)

\* a poll that reports the lowest key held, whatever the last snapshot
check_keystates_changed_level(inp, keys) ==
    LET curr_key_states == _key_states(keys)
    IN  [val |-> ScanKeyStates(curr_key_states, [k \in 0 .. 15 |-> FALSE], 0),
         inp |-> [inp EXCEPT !.last_key_states = curr_key_states]]

\* a poll that, when it reports a key, records only that key as held
check_keystates_changed_records_one(inp, keys) ==
    LET curr_key_states == _key_states(keys)
        idx == ScanKeyStates(curr_key_states, inp.last_key_states, 0)
    IN  [val |-> idx,
         inp |-> [inp EXCEPT !.last_key_states =
                    IF idx = None THEN curr_key_states
                    ELSE [k \in 0 .. 15 |-> (k = idx) \/ (@[k] /\ curr_key_states[k])]]]

\* returns the key (or None) and the input object after the call
check_keystates_changed(inp, keys) ==
    LET curr_key_states == _key_states(keys)
    IN  [val |-> ScanKeyStates(curr_key_states, inp.last_key_states, 0),
         inp |-> [inp EXCEPT !.last_key_states = curr_key_states]]

(***************************************************************************)
(* CPU (core/cpu.py).  A machine record m holds the four objects, the      *)
(* exception in flight (err) and what the call observed: whether it        *)
(* fetched an instruction (fetched, fetch_addr), the key its poll returned  *)
(* (key) and what the backend answered to its key query (pressed).         *)
(***************************************************************************)
Unset == -1

\* perf_counter() counts in units of 1/240 second from the reading the
\* constructor takes: 1 / 60 second is 4 units
TimerPeriod == 4

CPUInit ==
    [registers       |-> [r \in 0 .. REGISTER_COUNT - 1 |-> 0],
     pc              |-> ROM_START_IDX,
     pc_modified     |-> FALSE,
     i               |-> 0,
     stack           |-> [s \in 0 .. STACK_SIZE - 1 |-> 0],
     sp              |-> 0,
     opcode          |-> Unset,
     delay_timer     |-> 0,
     sound_timer     |-> 0,
     last_timer_update |-> 0,
     waiting_for_key |-> FALSE]

Fail(m, e) == [m EXCEPT !.err = e]

_second_nibble(m) == ShiftRight(BitAnd(m.cpu.opcode, 3840), 8)

_third_nibble(m) == ShiftRight(BitAnd(m.cpu.opcode, 240), 4)

_fourth_nibble(m) == BitAnd(m.cpu.opcode, 15)

_second_byte(m) == BitAnd(m.cpu.opcode, 255)

_last_3_nibbles(m) == BitAnd(m.cpu.opcode, 4095)

\* return_from_subroutine marking the counter as explicitly set
return_sets_pc_modified(m) ==
    IF m.cpu.sp = 0 THEN Fail(m, RuntimeError)
    ELSE [m EXCEPT !.cpu.sp = m.cpu.sp - 1,
                   !.cpu.pc = m.cpu.stack[m.cpu.sp - 1],
                   !.cpu.pc_modified = TRUE]

\* return_from_subroutine reading the slot below the one it pops
return_wrong_slot(m) ==
    IF m.cpu.sp = 0 THEN Fail(m, RuntimeError)
    ELSE [m EXCEPT !.cpu.sp = m.cpu.sp - 1,
                   !.cpu.pc = m.cpu.stack[(m.cpu.sp - 2) % STACK_SIZE]]

\* return_from_subroutine doing nothing on the empty stack
return_ignores_empty(m) ==
    IF m.cpu.sp = 0 THEN m
    ELSE [m EXCEPT !.cpu.sp = m.cpu.sp - 1,
                   !.cpu.pc = m.cpu.stack[m.cpu.sp - 1]]

return_from_subroutine(m) ==
    IF m.cpu.sp = 0 THEN Fail(m, RuntimeError)
    ELSE [m EXCEPT !.cpu.sp = m.cpu.sp - 1,
                   !.cpu.pc = m.cpu.stack[m.cpu.sp - 1]]

dispatch_sys_control(m) ==
    LET sel == BitAnd(m.cpu.opcode, 4095)
    IN  CASE sel = 224 -> [m EXCEPT !.display = clear_screen(m.display)]
          [] sel = 238 -> return_from_subroutine(m)
          [] OTHER     -> Fail(m, UnsupportedOpcodeError)

\* jump without pc_modified
jump_no_flag(m) ==
    LET destination == BitAnd(m.cpu.opcode, 4095)
        sel         == BitAnd(m.cpu.opcode, 61440)
    IN  CASE sel = 4096  -> [m EXCEPT !.cpu.pc = destination]
          [] sel = 45056 -> [m EXCEPT !.cpu.pc = destination + m.cpu.registers[0]]
          [] OTHER       -> Fail(m, UnsupportedOpcodeError)

jump(m) ==
    LET destination == BitAnd(m.cpu.opcode, 4095)
        sel         == BitAnd(m.cpu.opcode, 61440)
    IN  CASE sel = 4096  -> [m EXCEPT !.cpu.pc = destination,
                                      !.cpu.pc_modified = TRUE]
          [] sel = 45056 -> [m EXCEPT !.cpu.pc = destination + m.cpu.registers[0],
                                      !.cpu.pc_modified = TRUE]
          [] OTHER       -> Fail(m, UnsupportedOpcodeError)

\* call pushing the address of the next instruction
call_push_next(m) ==
    IF m.cpu.sp >= ListLen(m.cpu.stack) THEN Fail(m, IndexError)
    ELSE [m EXCEPT !.cpu.stack[m.cpu.sp] = m.cpu.pc + 2,
                   !.cpu.sp = m.cpu.sp + 1,
                   !.cpu.pc = BitAnd(m.cpu.opcode, 4095),
                   !.cpu.pc_modified = TRUE]

\* call on a stack that starts over from slot 0 when it is full
call_wraps_around(m) ==
    [m EXCEPT !.cpu.stack[m.cpu.sp % ListLen(m.cpu.stack)] = m.cpu.pc,
              !.cpu.sp = m.cpu.sp + 1,
              !.cpu.pc = BitAnd(m.cpu.opcode, 4095),
              !.cpu.pc_modified = TRUE]

call(m) ==
    IF m.cpu.sp >= ListLen(m.cpu.stack) THEN Fail(m, IndexError)
    ELSE [m EXCEPT !.cpu.stack[m.cpu.sp] = m.cpu.pc,
                   !.cpu.sp = m.cpu.sp + 1,
                   !.cpu.pc = BitAnd(m.cpu.opcode, 4095),
                   !.cpu.pc_modified = TRUE]

skip_eq_neq_nn(m) ==
    LET reg_value == m.cpu.registers[_second_nibble(m)]
        value     == _second_byte(m)
    IN  IF \/ (BitAnd(m.cpu.opcode, 61440) = 12288 /\ value = reg_value)
           \/ (BitAnd(m.cpu.opcode, 61440) = 16384 /\ value # reg_value)
        THEN [m EXCEPT !.cpu.pc = @ + 2]
        ELSE m

skip_eq_neq_reg(m) ==
    LET reg1_value == m.cpu.registers[_second_nibble(m)]
        reg2_value == m.cpu.registers[_third_nibble(m)]
    IN  IF \/ (BitAnd(m.cpu.opcode, 61455) = 20480 /\ reg1_value = reg2_value)
           \/ (BitAnd(m.cpu.opcode, 61455) = 36864 /\ reg1_value # reg2_value)
        THEN [m EXCEPT !.cpu.pc = @ + 2]
        ELSE m

dispatch_comparison(m) ==
    LET sel == BitAnd(m.cpu.opcode, 61440)
    IN  CASE sel = 12288 \/ sel = 16384 -> skip_eq_neq_nn(m)
          [] sel = 20480 \/ sel = 36864 -> skip_eq_neq_reg(m)
          [] OTHER                      -> m

set_reg(m) ==
    [m EXCEPT !.cpu.registers[_second_nibble(m)] = _second_byte(m)]

\* add_nn_no_carry writing the carry of the sum to VF
add_nn_sets_carry(m) ==
    LET reg_idx == _second_nibble(m)
        value   == _second_byte(m)
        sum_    == m.cpu.registers[reg_idx] + value
    IN  [m EXCEPT !.cpu.registers =
            [[@ EXCEPT ![reg_idx] = sum_ % 256]
                EXCEPT ![VF_IDX] = IF sum_ > 255 THEN 1 ELSE 0]]

add_nn_no_carry(m) ==
    LET reg_idx == _second_nibble(m)
        value   == _second_byte(m)
    IN  [m EXCEPT !.cpu.registers[reg_idx] = (m.cpu.registers[reg_idx] + value) % 256]

\* the two assignments in the opposite order
Assign2_first_wins(regs, idx1, v1, idx2, v2) ==
    [[regs EXCEPT ![idx2] = v2] EXCEPT ![idx1] = v1]

\* two list assignments in program order: the second wins on the same index
Assign2(regs, idx1, v1, idx2, v2) ==
    [[regs EXCEPT ![idx1] = v1] EXCEPT ![idx2] = v2]

\* add_reg_carry with the carry set from a sum of 255 on
add_reg_carry_from_255(m, reg_idx, value1, value2) ==
    LET sum_ == value1 + value2
    IN  [m EXCEPT !.cpu.registers =
            Assign2(@, VF_IDX, IF sum_ >= 255 THEN 1 ELSE 0, reg_idx, sum_ % 256)]

add_reg_carry(m, reg_idx, value1, value2) ==
    LET sum_ == value1 + value2
    IN  [m EXCEPT !.cpu.registers =
            Assign2(@, VF_IDX, IF sum_ > 255 THEN 1 ELSE 0, reg_idx, sum_ % 256)]

\* sub_reg_borrow reporting a borrow on equal operands
sub_reg_borrow_on_equal(m, reg_idx, value1, value2) ==
    LET diff == value1 - value2
    IN  [m EXCEPT !.cpu.registers =
            Assign2(@, VF_IDX, IF diff <= 0 THEN 0 ELSE 1, reg_idx, (diff + 256) % 256)]

\* sub_reg_borrow storing the difference as it is
sub_reg_borrow_unwrapped(m, reg_idx, value1, value2) ==
    LET diff == value1 - value2
    IN  [m EXCEPT !.cpu.registers =
            Assign2(@, VF_IDX, IF diff < 0 THEN 0 ELSE 1, reg_idx, diff)]

sub_reg_borrow(m, reg_idx, value1, value2) ==
    LET diff == value1 - value2
    IN  [m EXCEPT !.cpu.registers =
            Assign2(@, VF_IDX, IF diff < 0 THEN 0 ELSE 1, reg_idx, (diff + 256) % 256)]

shift_reg_right(m, reg_idx, value1) ==
    [m EXCEPT !.cpu.registers =
        Assign2(@, VF_IDX, BitAnd(value1, 1), reg_idx, ShiftRight(value1, 1))]

\* shift_reg_left without the mask on the low seven bits
shift_reg_left_unmasked(m, reg_idx, value1) ==
    [m EXCEPT !.cpu.registers =
        Assign2(@, VF_IDX, ShiftRight(BitAnd(value1, 128), 7),
                   reg_idx, ShiftLeft(value1, 1))]

shift_reg_left(m, reg_idx, value1) ==
    [m EXCEPT !.cpu.registers =
        Assign2(@, VF_IDX, ShiftRight(BitAnd(value1, 128), 7),
                   reg_idx, ShiftLeft(BitAnd(value1, 127), 1))]

dispatch_reg_arithmetic(m) ==
    LET reg1_idx   == _second_nibble(m)
        reg1_value == m.cpu.registers[reg1_idx]
        reg2_value == m.cpu.registers[_third_nibble(m)]
        sel        == BitAnd(m.cpu.opcode, 15)
    IN  CASE sel = 0  -> [m EXCEPT !.cpu.registers[reg1_idx] = reg2_value]
          [] sel = 1  -> [m EXCEPT !.cpu.registers[reg1_idx] = BitOr(reg1_value, reg2_value)]
          [] sel = 2  -> [m EXCEPT !.cpu.registers[reg1_idx] = BitAnd(reg1_value, reg2_value)]
          [] sel = 3  -> [m EXCEPT !.cpu.registers[reg1_idx] = BitXor(reg1_value, reg2_value)]
          [] sel = 4  -> add_reg_carry(m, reg1_idx, reg1_value, reg2_value)
          [] sel = 5  -> sub_reg_borrow(m, reg1_idx, reg1_value, reg2_value)
          [] sel = 6  -> shift_reg_right(m, reg1_idx, reg1_value)
          [] sel = 7  -> sub_reg_borrow(m, reg1_idx, reg2_value, reg1_value)
          [] sel = 14 -> shift_reg_left(m, reg1_idx, reg1_value)
          \* the default case builds the exception and does not raise it
          [] OTHER    -> m

set_i(m) == [m EXCEPT !.cpu.i = _last_3_nibbles(m)]

\* rnd is what randint(0, 255) returns
set_random_byte(m, rnd) ==
    LET reg_idx == _second_nibble(m)
        value   == _second_byte(m)
    IN  [m EXCEPT !.cpu.registers[reg_idx] = BitAnd(value, rnd)]

\* [self.memory.read_byte(self.i + j) for j in range(size)] from j on
RECURSIVE ReadBytes(_, _, _, _)
ReadBytes(m, j, size, acc) ==
    IF j >= size THEN Return(acc)
    ELSE LET r == read_byte(m.memory, m.cpu.i + j)
         IN  IF r.err # NoError THEN Raise(r.err)
             ELSE ReadBytes(m, j + 1, size, Append(acc, r.val))

\* a draw that only ever raises the flag
cpu_draw_sprite_sticky_flag(m) ==
    LET x          == m.cpu.registers[_second_nibble(m)]
        y          == m.cpu.registers[_third_nibble(m)]
        size       == _fourth_nibble(m)
        byte_array == ReadBytes(m, 0, size, <<>>)
    IN  IF byte_array.err # NoError THEN Fail(m, byte_array.err)
        ELSE LET d == draw_sprite(m.display, x, y, byte_array.val)
             IN  [m EXCEPT !.display = d.disp,
                           !.cpu.registers[VF_IDX] = IF d.collided THEN 1 ELSE @]

cpu_draw_sprite(m) ==
    LET x          == m.cpu.registers[_second_nibble(m)]
        y          == m.cpu.registers[_third_nibble(m)]
        size       == _fourth_nibble(m)
        byte_array == ReadBytes(m, 0, size, <<>>)
    IN  IF byte_array.err # NoError THEN Fail(m, byte_array.err)
        ELSE LET d == draw_sprite(m.display, x, y, byte_array.val)
             IN  [m EXCEPT !.display = d.disp,
                           !.cpu.registers[VF_IDX] = IF d.collided THEN 1 ELSE 0]

\* what keyboard.is_pressed answered, as recorded in the machine record
Answer(b) == IF b THEN "down" ELSE "up"

NotAsked == "not asked"

\* process_input with the two conditions exchanged
process_input_inverted(m, keys) ==
    LET key      == m.cpu.registers[_second_nibble(m)]
        low_byte == _second_byte(m)
    IN  IF low_byte = 158
        THEN LET p == key_not_pressed(keys, key)
             IN  IF p.err # NoError THEN Fail(m, p.err)
                 ELSE IF p.val THEN [m EXCEPT !.cpu.pc = @ + 2, !.pressed = Answer(~p.val)]
                 ELSE [m EXCEPT !.pressed = Answer(~p.val)]
        ELSE IF low_byte = 161
        THEN LET p == key_pressed(keys, key)
             IN  IF p.err # NoError THEN Fail(m, p.err)
                 ELSE IF p.val THEN [m EXCEPT !.cpu.pc = @ + 2, !.pressed = Answer(p.val)]
                 ELSE [m EXCEPT !.pressed = Answer(p.val)]
        ELSE m

\* keys: the keys the backend reports as held during this call
process_input(m, keys) ==
    LET key      == m.cpu.registers[_second_nibble(m)]
        low_byte == _second_byte(m)
    IN  IF low_byte = 158
        THEN LET p == key_pressed(keys, key)
             IN  IF p.err # NoError THEN Fail(m, p.err)
                 ELSE IF p.val THEN [m EXCEPT !.cpu.pc = @ + 2, !.pressed = Answer(p.val)]
                 ELSE [m EXCEPT !.pressed = Answer(p.val)]
        ELSE IF low_byte = 161
        THEN LET p == key_not_pressed(keys, key)
             IN  IF p.err # NoError THEN Fail(m, p.err)
                 ELSE IF p.val THEN [m EXCEPT !.cpu.pc = @ + 2, !.pressed = Answer(~p.val)]
                 ELSE [m EXCEPT !.pressed = Answer(~p.val)]
        ELSE m

\* the loop of store_bcd from j on
RECURSIVE StoreBcdFrom(_, _, _)
StoreBcdFrom(m, val, j) ==
    IF j >= 3 THEN m
    ELSE LET digit == (val \div Pow(10, 2 - j)) % 10
             w     == write_byte(m.memory, m.cpu.i + j, digit)
         IN  IF w.err # NoError THEN Fail(m, w.err)
             ELSE StoreBcdFrom([m EXCEPT !.memory = w.mem], val, j + 1)

\* the digits of the register that the third nibble names
store_bcd_third_nibble(m) == StoreBcdFrom(m, m.cpu.registers[_third_nibble(m)], 0)

\* a store that writes nothing when one of its writes fails
store_bcd_all_or_nothing(m) ==
    LET r == StoreBcdFrom(m, m.cpu.registers[_second_nibble(m)], 0)
    IN  IF r.err # NoError THEN Fail(m, r.err) ELSE r

store_bcd(m) == StoreBcdFrom(m, m.cpu.registers[_second_nibble(m)], 0)

\* the loop of exchange_regs_memory from idx on
RECURSIVE ExchangeFrom(_, _, _, _)
ExchangeFrom(m, write, reg_idx, idx) ==
    IF idx >= reg_idx + 1 THEN m
    ELSE IF write
    THEN LET w == write_byte(m.memory, m.cpu.i + idx, m.cpu.registers[idx])
         IN  IF w.err # NoError THEN Fail(m, w.err)
             ELSE ExchangeFrom([m EXCEPT !.memory = w.mem], write, reg_idx, idx + 1)
    ELSE LET r == read_byte(m.memory, m.cpu.i + idx)
         IN  IF r.err # NoError THEN Fail(m, r.err)
             ELSE ExchangeFrom([m EXCEPT !.cpu.registers[idx] = r.val],
                               write, reg_idx, idx + 1)

\* an exchange with the bytes behind the glyph table, whatever i holds
exchange_regs_memory_at_glyphs(m, write) ==
    [ExchangeFrom([m EXCEPT !.cpu.i = FONTSET_START_ADDRESS + 5 * 16 - 1],
                  write, _second_nibble(m), 0) EXCEPT !.cpu.i = m.cpu.i]

\* an exchange of the registers below Vx only
exchange_regs_memory_exclusive(m, write) ==
    ExchangeFrom(m, write, _second_nibble(m) - 1, 0)

exchange_regs_memory(m, write) == ExchangeFrom(m, write, _second_nibble(m), 0)

dispatch_misc_fx(m, keys) ==
    LET reg_idx == _second_nibble(m)
        sel     == BitAnd(m.cpu.opcode, 255)
    IN  CASE sel = 7   -> [m EXCEPT !.cpu.registers[reg_idx] = m.cpu.delay_timer]
          [] sel = 10  -> [m EXCEPT !.input_ = start_waiting(m.input_, keys),
                                    !.cpu.waiting_for_key = TRUE]
          [] sel = 21  -> [m EXCEPT !.cpu.delay_timer = m.cpu.registers[reg_idx]]
          [] sel = 24  -> [m EXCEPT !.cpu.sound_timer = m.cpu.registers[reg_idx]]
          [] sel = 30  -> [m EXCEPT !.cpu.i = @ + m.cpu.registers[reg_idx]]
          [] sel = 41  -> [m EXCEPT !.cpu.i = get_sprite_address(m.cpu.registers[reg_idx])]
          [] sel = 51  -> store_bcd(m)
          [] sel = 85  -> exchange_regs_memory(m, TRUE)
          [] sel = 101 -> exchange_regs_memory(m, FALSE)
          [] OTHER     -> Fail(m, UnsupportedOpcodeError)

dispatch(m, keys, rnd) ==
    LET sel == BitAnd(m.cpu.opcode, 61440)
    IN  CASE sel = 0                     -> dispatch_sys_control(m)
          [] sel = 4096 \/ sel = 45056   -> jump(m)
          [] sel = 8192                  -> call(m)
          [] sel \in {12288, 16384, 20480, 36864} -> dispatch_comparison(m)
          [] sel = 24576                 -> set_reg(m)
          [] sel = 28672                 -> add_nn_no_carry(m)
          [] sel = 32768                 -> dispatch_reg_arithmetic(m)
          [] sel = 40960                 -> set_i(m)
          [] sel = 49152                 -> set_random_byte(m, rnd)
          [] sel = 53248                 -> cpu_draw_sprite(m)
          [] sel = 57344                 -> process_input(m, keys)
          [] sel = 61440                 -> dispatch_misc_fx(m, keys)
          [] OTHER                       -> Fail(m, UnsupportedOpcodeError)

\* check_any_key_pressed returning True also when no key arrived
check_any_key_pressed_always_true(m, keys) ==
    LET k == check_keystates_changed(m.input_, keys)
        m1 == [m EXCEPT !.input_ = k.inp, !.key = k.val]
    IN  IF k.val # None
        THEN [val |-> TRUE,
              m   |-> [m1 EXCEPT !.cpu.registers[_second_nibble(m1)] = k.val,
                                 !.cpu.waiting_for_key = FALSE]]
        ELSE [val |-> TRUE, m |-> m1]

\* check_any_key_pressed taking the register from the third nibble
check_any_key_pressed_third_nibble(m, keys) ==
    LET k == check_keystates_changed(m.input_, keys)
        m1 == [m EXCEPT !.input_ = k.inp, !.key = k.val]
    IN  IF k.val # None
        THEN [val |-> TRUE,
              m   |-> [m1 EXCEPT !.cpu.registers[_third_nibble(m1)] = k.val,
                                 !.cpu.waiting_for_key = FALSE]]
        ELSE [val |-> FALSE, m |-> m1]

\* returns the machine after the call and the boolean the call returns
check_any_key_pressed(m, keys) ==
    LET k == check_keystates_changed(m.input_, keys)
        m1 == [m EXCEPT !.input_ = k.inp, !.key = k.val]
    IN  IF k.val # None
        THEN [val |-> TRUE,
              m   |-> [m1 EXCEPT !.cpu.registers[_second_nibble(m1)] = k.val,
                                 !.cpu.waiting_for_key = FALSE]]
        ELSE [val |-> FALSE, m |-> m1]

\* cycle advancing the program counter before it dispatches
cycle_advance_first(m, keys, rnd) ==
    IF ~m.cpu.waiting_for_key
    THEN LET w  == read_word(m.memory, m.cpu.pc)
             m0 == [m EXCEPT !.fetched = TRUE, !.fetch_addr = m.cpu.pc]
         IN  IF w.err # NoError THEN Fail(m0, w.err)
             ELSE LET m1 == dispatch([m0 EXCEPT !.cpu.opcode = w.val,
                                                !.cpu.pc = @ + 2], keys, rnd)
                  IN  IF m1.err # NoError THEN m1
                      ELSE [m1 EXCEPT !.cpu.pc_modified = FALSE]
    ELSE LET r == check_any_key_pressed(m, keys)
         IN  [r.m EXCEPT !.cpu.waiting_for_key = ~r.val]

cycle(m, keys, rnd) ==
    IF ~m.cpu.waiting_for_key
    THEN LET w  == read_word(m.memory, m.cpu.pc)
             m0 == [m EXCEPT !.fetched = TRUE, !.fetch_addr = m.cpu.pc]
         IN  IF w.err # NoError THEN Fail(m0, w.err)
             ELSE LET m1 == dispatch([m0 EXCEPT !.cpu.opcode = w.val], keys, rnd)
                  IN  IF m1.err # NoError THEN m1
                      ELSE [m1 EXCEPT !.cpu.pc = IF ~m1.cpu.pc_modified THEN @ + 2 ELSE @,
                                      !.cpu.pc_modified = FALSE]
    ELSE LET r == check_any_key_pressed(m, keys)
         IN  [r.m EXCEPT !.cpu.waiting_for_key = ~r.val]

\* update_timers taking one tick for every period that has elapsed
update_timers_catch_up(m, time_now) ==
    LET periods == (time_now - m.cpu.last_timer_update) \div TimerPeriod
        m0 == [m EXCEPT !.time_now = time_now,
                        !.elapsed  = time_now - m.cpu.last_timer_update,
                        !.ticked   = FALSE]
    IN  IF time_now - m.cpu.last_timer_update >= TimerPeriod
        THEN [m0 EXCEPT !.cpu.delay_timer = IF @ > periods THEN @ - periods ELSE 0,
                        !.cpu.sound_timer = IF @ > periods THEN @ - periods ELSE 0,
                        !.cpu.last_timer_update = time_now,
                        !.ticked = TRUE]
        ELSE m0

\* update_timers without the test on the elapsed time
update_timers_ungated(m, time_now) ==
    LET m0 == [m EXCEPT !.time_now = time_now,
                        !.elapsed  = time_now - m.cpu.last_timer_update,
                        !.ticked   = FALSE]
    IN  [m0 EXCEPT !.cpu.delay_timer = IF @ > 0 THEN @ - 1 ELSE @,
                   !.cpu.sound_timer = IF @ > 0 THEN @ - 1 ELSE @,
                   !.cpu.last_timer_update = time_now,
                   !.ticked = TRUE]

\* time_now is what perf_counter() returns; the machine record notes it,
\* the elapsed time the call computed and whether the call ticked
update_timers(m, time_now) ==
    LET m0 == [m EXCEPT !.time_now = time_now,
                        !.elapsed  = time_now - m.cpu.last_timer_update,
                        !.ticked   = FALSE]
    IN  IF time_now - m.cpu.last_timer_update >= TimerPeriod
        THEN [m0 EXCEPT !.cpu.delay_timer = IF @ > 0 THEN @ - 1 ELSE @,
                        !.cpu.sound_timer = IF @ > 0 THEN @ - 1 ELSE @,
                        !.cpu.last_timer_update = time_now,
                        !.ticked = TRUE]
        ELSE m0

(***************************************************************************)
(* Emulator (core/emulator.py).  The clock counts in units of which        *)
(* TimerPeriod make one sixtieth of a second; at is the statement of the   *)
(* loop of emulate() that runs next.                                       *)
(***************************************************************************)
\* configs.py: instructions per second
TARGET_IPS == 240

ClockUnitsPerSecond == 60 * TimerPeriod

EmulatorInit ==
    [delay_between_ops |-> ClockUnitsPerSecond \div TARGET_IPS,
     cpu_cycles        |-> 0,
     cpu_cycles_max    |-> TARGET_IPS \div 60,
     at                |-> "cycle"]

\* self.cpu.cycle(); an exception leaves the loop
emulate_cycle(m, keys, rnd) ==
    LET m1 == cycle(m, keys, rnd)
    IN  [m1 EXCEPT !.emulator.at = IF m1.err = NoError THEN "sleep" ELSE "raised"]

\* the count that goes on counting once it has reached cpu_cycles_max
emulate_sleep_no_reset(m, slept) ==
    LET count == m.emulator.cpu_cycles + 1
    IN  [m EXCEPT !.time_now = m.time_now + slept,
                  !.emulator.cpu_cycles = count,
                  !.emulator.at = IF count >= m.emulator.cpu_cycles_max
                                  THEN "refresh" ELSE "cycle"]

\* sleep(self.delay_between_ops), which returns after slept units, then the
\* count of the cycle and its test against cpu_cycles_max
emulate_sleep(m, slept) ==
    LET count == m.emulator.cpu_cycles + 1
    IN  IF count >= m.emulator.cpu_cycles_max
        THEN [m EXCEPT !.time_now = m.time_now + slept,
                       !.emulator.cpu_cycles = 0,
                       !.emulator.at = "refresh"]
        ELSE [m EXCEPT !.time_now = m.time_now + slept,
                       !.emulator.cpu_cycles = count,
                       !.emulator.at = "cycle"]

\* self.display.refresh()
emulate_refresh(m) ==
    LET r == refresh(m.display)
    IN  [m EXCEPT !.display = r.disp, !.printed = r.printed,
                  !.emulator.at = "update_timers"]

\* self.cpu.update_timers(), perf_counter() answering the time of the clock
emulate_update_timers(m) ==
    [update_timers(m, m.time_now) EXCEPT !.emulator.at = "cycle"]

(***************************************************************************)
(* Inputs: program images, keyboard answers and random bytes               *)
(***************************************************************************)
Word(n1, n2, n3, n4) == n1 * 4096 + n2 * 256 + n3 * 16 + n4

\* the image file of a program given as 16-bit words, big-endian
RECURSIVE Image(_)
Image(words) ==
    IF words = <<>> THEN <<>>
    ELSE <<Head(words) \div 256, Head(words) % 256>> \o Image(Tail(words))

SampleBytes == {0, 1, 15, 16, 128, 255}

SampleKeys == {1, 15}

KeySets == SUBSET SampleKeys

RandomBytes == {90, 255}

\* deepest chain of nested subroutines among the programs: one more than
\* the stack holds
MaxNest == 17

\* instructions on V1 (hexadecimal in the comments)
UnaryWords ==
    {   12544, 12560, 12799,       \* 3100 3110 31FF
        16640, 16656, 16895,       \* 4100 4110 41FF
        57758, 57761, 57855,       \* E19E E1A1 E1FF
        28944, 29183,              \* 7110 71FF
        49423, 49407,              \* C10F C0FF
        61703, 61717, 61720, 61726, 61737, 61747, 61781, 61797,
                                   \* F107 F115 F118 F11E F129 F133 F155 F165
        61951, 61696,              \* F1FF F100
        291, 224 }                 \* 0123 00E0

\* instructions on V1 and V2
BinaryWords ==
    {   20768, 37152,              \* 5120 9120
        20769, 37157,              \* 5121 9125
        33056, 33057, 33058, 33059, 33060, 33061, 33062, 33063, 33070,
                                   \* 8120 .. 8127 812E
        33064, 33071 }             \* 8128 812F

\* V1 := a, then one instruction; V1 := a, V2 := b, then one instruction
OperandPrograms ==
    { <<Word(6, 1, a \div 16, a % 16), w>> : a \in SampleBytes, w \in UnaryWords }
    \cup
    { <<Word(6, 1, a \div 16, a % 16), Word(6, 2, b \div 16, b % 16), w>> :
        a \in SampleBytes, b \in SampleBytes, w \in BinaryWords }

\* wait for a key into Vx, then count it in Vx
WaitPrograms ==
    { <<Word(15, x, 0, 10), Word(7, x, 0, 1), Word(15, x, 0, 10)>> : x \in {0, 3, 15} }

\* word 0 calls the subroutine at word 2, word 1 spins; the subroutine at
\* word 2k calls the one at word 2k+2 and returns, the n-th only returns
NestWord(n, k) ==
    IF k = 0 THEN 8192 + ROM_START_IDX + 4
    ELSE IF k = 1 THEN 4096 + ROM_START_IDX + 2
    ELSE IF k % 2 = 1 \/ k = 2 * n THEN 238
    ELSE 8192 + ROM_START_IDX + 2 * (k + 2)

NestPrograms ==
    { [k \in 1 .. 2 * n + 1 |-> NestWord(n, k - 1)] : n \in 1 .. MaxNest }

FlowPrograms ==
    {   <<238>>,                               \* 00EE on the empty stack
        <<8704>>,                              \* 2200: calls itself
        <<4614, 0, 0, 24833, 4608>>,           \* 1206 .. 6101 1200
        <<24592, 45572, 0, 0, 0, 0, 0, 0, 0, 0, 24833>>,
                                               \* 6010 B204 .. 6101 at 214
        <<24831, 49151>>,                      \* 60FF BFFF
        <<8710, 24833, 4612, 25090, 238>> }    \* 2206 6101 1204 6202 00EE

Programs == OperandPrograms \cup WaitPrograms \cup NestPrograms \cup FlowPrograms

(***************************************************************************)
(* The machine: one Memory, Display, Input_ and CPU, as Emulator.__init__   *)
(* builds them, and result, the outcome of the last call made on them.     *)
(***************************************************************************)
Init ==
    /\ memory  = MemoryInit
    /\ display = DisplayInit
    /\ input_  = InputInit
    /\ cpu     = CPUInit
    /\ emulator = EmulatorInit
    /\ result  = [op |-> "init", err |-> NoError, fetched |-> FALSE,
                  fetch_addr |-> None, key |-> None, pressed |-> NotAsked,
                  call_sites |-> <<>>,
                  time_now |-> 0, elapsed |-> None, ticked |-> FALSE,
                  args |-> <<>>, ret |-> None, before |-> <<>>, draws |-> 0,
                  printed |-> <<>>, dumped |-> <<>>, iterations |-> 0]

Machine ==
    [cpu |-> cpu, memory |-> memory, display |-> display, input_ |-> input_,
     emulator |-> emulator,
     err |-> NoError, fetched |-> FALSE, fetch_addr |-> result.fetch_addr,
     key |-> None, pressed |-> NotAsked,
     time_now |-> result.time_now, elapsed |-> None, ticked |-> result.ticked,
     args |-> <<>>, ret |-> None, printed |-> <<>>]

\* the addresses the program counter held at the calls that have not
\* returned yet, after the call op has left the machine record m
CallSitesAfter(op, m) ==
    IF m.err # NoError THEN result.call_sites
    ELSE IF \/ op = "call"
            \/ op = "cycle" /\ m.fetched /\ BitAnd(m.cpu.opcode, 61440) = 8192
    THEN Append(result.call_sites, cpu.pc)
    ELSE IF /\ \/ op = "return_from_subroutine"
               \/ op = "cycle" /\ m.fetched /\ m.cpu.opcode = 238
            /\ result.call_sites # <<>>
    THEN SubSeq(result.call_sites, 1, Len(result.call_sites) - 1)
    ELSE result.call_sites

\* the last register dump (Fx55) whose bytes memory still holds as written:
\* <<x, i, registers>> at the dump, <<>> once memory has changed since
DumpedAfter(op, m) ==
    IF /\ op = "cycle" /\ m.fetched /\ m.err = NoError
       /\ BitAnd(m.cpu.opcode, 61695) = 61525
    THEN <<(m.cpu.opcode \div 256) % 16, cpu.i, cpu.registers>>
    ELSE IF m.memory # memory THEN <<>>
    ELSE result.dumped

\* the passes of the driver loop begun since the display was last
\* presented by the loop
IterationsAfter(op) ==
    IF op = "emulate_cycle" THEN result.iterations + 1
    ELSE IF op = "emulate_refresh" THEN 0
    ELSE result.iterations

Commit(op, m) ==
    /\ cpu'     = m.cpu
    /\ memory'  = m.memory
    /\ display' = m.display
    /\ input_'  = m.input_
    /\ emulator' = m.emulator
    /\ result'  = [op |-> op, err |-> m.err, fetched |-> m.fetched,
                   fetch_addr |-> m.fetch_addr, key |-> m.key,
                   pressed |-> m.pressed, call_sites |-> CallSitesAfter(op, m),
                   time_now |-> m.time_now, elapsed |-> m.elapsed,
                   ticked |-> m.ticked,
                   args |-> m.args, ret |-> m.ret,
                   before |-> IF op = "draw_sprite" THEN display.screen ELSE <<>>,
                   draws |-> IF op = "draw_sprite" THEN result.draws + 1
                             ELSE result.draws,
                   printed |-> m.printed,
                   dumped |-> DumpedAfter(op, m),
                   iterations |-> IterationsAfter(op)]

\* Memory.load_rom on the image of one of the programs; once a program is
\* loaded the call returns at once, whatever the image
LoadRom ==
    \/ /\ ~memory.rom_loaded
       /\ \E p \in Programs :
            Commit("load_rom", [Machine EXCEPT !.memory = load_rom(memory, Image(p))])
    \/ /\ memory.rom_loaded
       /\ Commit("load_rom", [Machine EXCEPT !.memory = load_rom(memory, <<>>)])

\* CPU.cycle, with the keyboard and the random source answering
Cycle ==
    \E keys \in KeySets, rnd \in RandomBytes :
        Commit("cycle", cycle(Machine, keys, rnd))

Next == LoadRom \/ Cycle

Spec == Init /\ [][Next]_vars

(***************************************************************************)
(* The handlers called directly, as the unit tests call them: jump, call   *)
(* and return_from_subroutine on a fresh CPU, any number of nested calls   *)
(* followed by returns.                                                    *)
(***************************************************************************)
StartAddresses == {768, 4094}

\* the subroutine chosen at stack depth sp: a choice at the outer levels,
\* one subroutine per level further in
BranchDepth == 2

CallTargets(sp) ==
    IF sp < BranchDepth THEN {1024 + 2 * sp, 2048} ELSE {1024 + 2 * sp}

DirectJump ==
    /\ result.op = "init"
    /\ \E nnn \in StartAddresses :
        Commit("jump", jump([Machine EXCEPT !.cpu.opcode = 4096 + nnn]))

DirectCall ==
    /\ result.op \in {"init", "jump", "call"}
    /\ result.err = NoError
    /\ \E nnn \in CallTargets(cpu.sp) :
        Commit("call", call([Machine EXCEPT !.cpu.opcode = 8192 + nnn]))

DirectReturn ==
    /\ result.op \in {"call", "return_from_subroutine"}
    /\ result.err = NoError
    /\ Commit("return_from_subroutine",
              return_from_subroutine([Machine EXCEPT !.cpu.opcode = 238]))

NextHandlers == DirectJump \/ DirectCall \/ DirectReturn

SpecHandlers == Init /\ [][NextHandlers]_vars

(***************************************************************************)
(* The timers: delay_timer and sound_timer assigned on a fresh CPU, as the *)
(* unit tests assign them, then any number of update_timers() calls at     *)
(* non-decreasing readings of perf_counter().                              *)
(***************************************************************************)
TimerValues == {0, 1, 3}

\* the longest time between two readings of the clock: over two periods
MaxElapsed == 9

\* the last reading of the clock
MaxClock == 12

SetTimers ==
    /\ result.op = "init"
    /\ \E d \in TimerValues, s \in TimerValues :
        Commit("set_timers", [Machine EXCEPT !.cpu.delay_timer = d,
                                             !.cpu.sound_timer = s])

UpdateTimers ==
    \E dt \in 0 .. MaxElapsed :
        /\ result.time_now + dt <= MaxClock
        /\ Commit("update_timers", update_timers(Machine, result.time_now + dt))

NextTimers == SetTimers \/ UpdateTimers

SpecTimers == Init /\ [][NextTimers]_vars

(***************************************************************************)
(* The arithmetic instructions: V1, V2 and VF assigned on a fresh CPU, as  *)
(* the unit tests assign them, a one-instruction program loaded, and one   *)
(* cycle().                                                                *)
(***************************************************************************)
AluBytes == {0, 1, 127, 128, 255}

\* values of VF that no carry, borrow or shifted-out bit can be
AluFlags == {7, 255}

\* the register pairs x, y: distinct, the same, and VF on either side
AluRegisterPairs == {<<1, 2>>, <<1, 1>>, <<1, 15>>, <<15, 2>>, <<15, 15>>}

\* 8xy4 8xy5 8xy6 8xy7 8xyE, and 7xkk
AluWords ==
    { Word(8, xy[1], xy[2], n) : xy \in AluRegisterPairs, n \in {4, 5, 6, 7, 14} }
    \cup
    { Word(7, x, kk \div 16, kk % 16) : x \in {1, 15}, kk \in {0, 1, 255} }

SetRegisters ==
    /\ result.op = "init"
    /\ \E a \in AluBytes, b \in AluBytes, c \in AluFlags :
        Commit("set_registers",
               [Machine EXCEPT !.cpu.registers[1] = a,
                               !.cpu.registers[2] = b,
                               !.cpu.registers[VF_IDX] = c])

AluLoadRom ==
    /\ result.op = "set_registers"
    /\ \E w \in AluWords :
        Commit("load_rom", [Machine EXCEPT !.memory = load_rom(memory, Image(<<w>>))])

AluCycle ==
    /\ result.op = "load_rom"
    /\ \E keys \in KeySets, rnd \in RandomBytes :
        Commit("cycle", cycle(Machine, keys, rnd))

NextAlu == SetRegisters \/ AluLoadRom \/ AluCycle

SpecAlu == Init /\ [][NextAlu]_vars

(***************************************************************************)
(* The display called directly, as its unit tests call it: draw_sprite()   *)
(* on a fresh Display, each call on the frame the calls before it left.    *)
(***************************************************************************)
\* origins at the corner, wrapping at the right and bottom edges, and
\* beyond the grid
Origins == {<<0, 0>>, <<62, 31>>, <<100, 50>>}

\* 33 rows: the last row lands on the pixels of the first
TallSprite == [i \in 1 .. 33 |-> IF i = 1 THEN 192 ELSE IF i = 33 THEN 128 ELSE 0]

Sprites == { <<>>, <<0>>, <<128>>, <<240, 1>>, TallSprite }

\* the number of draw_sprite() calls made on the display
MaxDraws == 3

DirectDrawSprite ==
    /\ result.draws < MaxDraws
    /\ \E o \in Origins, byte_array \in Sprites :
        LET d == draw_sprite(display, o[1], o[2], byte_array)
        IN  Commit("draw_sprite",
                   [Machine EXCEPT !.display = d.disp,
                                   !.ret  = d.collided,
                                   !.args = <<o[1], o[2], byte_array>>])

NextDisplay == DirectDrawSprite

SpecDisplay == Init /\ [][NextDisplay]_vars

(***************************************************************************)
(* The display drawn on, cleared and shown: draw_sprite(), clear_screen()  *)
(* and refresh() called directly in any order.                             *)
(***************************************************************************)
ShownSprites == { <<128>>, <<240, 1>> }

\* the number of draw_sprite() calls made between the refreshes and clears
MaxShownDraws == 2

ShownDrawSprite ==
    /\ result.draws < MaxShownDraws
    /\ \E o \in Origins, byte_array \in ShownSprites :
        LET d == draw_sprite(display, o[1], o[2], byte_array)
        IN  Commit("draw_sprite",
                   [Machine EXCEPT !.display = d.disp,
                                   !.ret  = d.collided,
                                   !.args = <<o[1], o[2], byte_array>>])

\* Display.refresh, as the emulator loop and the unit tests call it
DirectRefresh ==
    LET r == refresh(display)
    IN  Commit("refresh", [Machine EXCEPT !.display = r.disp, !.printed = r.printed])

\* Display.clear_screen, called directly
DirectClearScreen ==
    Commit("clear_screen", [Machine EXCEPT !.display = clear_screen(display)])

NextRefresh == ShownDrawSprite \/ DirectRefresh \/ DirectClearScreen

SpecRefresh == Init /\ [][NextRefresh]_vars

(***************************************************************************)
(* Programs that draw: Dxyn fetched and executed by cycle(), three times   *)
(* at the same origin from the same index register.                        *)
(***************************************************************************)
\* the values of Vx and Vy: the corner, wrapping at both edges, beyond the
\* grid
DrawOrigins == {<<0, 0>>, <<62, 31>>, <<100, 50>>}

\* the index register: the glyph of 0, the sprite data of the program, and
\* two bytes before the end of memory
DrawIndexes == {FONTSET_START_ADDRESS, ROM_START_IDX + 14, MEMORY_SIZE_IN_BYTES - 2}

DrawSizes == {0, 1, 5, 15}

\* sprite data stored behind the instructions of a drawing program
SpriteData == <<255, 129, 0, 24, 60, 1, 128, 0, 0, 0, 0, 0, 0, 0, 66>>

\* 6xkk 6ykk Annn Dxyn Dxyn Dxyn, a jump to itself, then the sprite data
DrawImage(o, nnn, n) ==
    Image(<<Word(6, 0, 0, 0) + o[1], Word(6, 1, 0, 0) + o[2],
            Word(10, 0, 0, 0) + nnn,
            Word(13, 0, 1, n), Word(13, 0, 1, n), Word(13, 0, 1, n),
            Word(1, 0, 0, 0) + (ROM_START_IDX + 12)>>) \o SpriteData

DrawLoadRom ==
    /\ ~memory.rom_loaded
    /\ \E o \in DrawOrigins, nnn \in DrawIndexes, n \in DrawSizes :
            Commit("load_rom",
                   [Machine EXCEPT !.memory = load_rom(memory, DrawImage(o, nnn, n))])

NextDraw == DrawLoadRom \/ Cycle

SpecDraw == Init /\ [][NextDraw]_vars

(***************************************************************************)
(* Memory called directly, as its unit tests call it: write_byte(),        *)
(* read_byte(), read_word() and load_rom() on a fresh Memory, each call on *)
(* what the calls before it left.                                          *)
(***************************************************************************)
\* addresses at both ends of memory, past the end, and below zero
WriteAddresses == {0 - (MEMORY_SIZE_IN_BYTES + 1), 0 - 1, 0,
                   MEMORY_SIZE_IN_BYTES - 1, MEMORY_SIZE_IN_BYTES}

\* with the last address a word can be read from
ReadAddresses == WriteAddresses \cup {MEMORY_SIZE_IN_BYTES - 2}

\* byte values, and the nearest values that are not bytes
WriteValues == {0 - 1, 7, 255, 256}

\* the largest image that fits behind ROM_START_IDX
FullImage == [k \in 1 .. MEMORY_SIZE_IN_BYTES - ROM_START_IDX |-> k % 256]

\* image files: empty, short, filling memory, and one byte longer
RomImages == { <<>>, <<18, 52, 86>>, FullImage, Append(FullImage, 9) }

DirectWriteByte ==
    \E addr \in WriteAddresses, value \in WriteValues :
        LET w == write_byte(memory, addr, value)
        IN  Commit("write_byte",
                   [Machine EXCEPT !.memory = w.mem, !.err = w.err,
                                   !.args = <<addr, value>>])

DirectReadByte ==
    \E addr \in ReadAddresses :
        LET r == read_byte(memory, addr)
        IN  Commit("read_byte",
                   [Machine EXCEPT !.err = r.err, !.args = <<addr>>,
                                   !.ret = IF r.err = NoError THEN r.val ELSE None])

DirectReadWord ==
    \E addr \in ReadAddresses :
        LET r == read_word(memory, addr)
        IN  Commit("read_word",
                   [Machine EXCEPT !.err = r.err, !.args = <<addr>>,
                                   !.ret = IF r.err = NoError THEN r.val ELSE None])

DirectLoadRom ==
    \E byte_array \in RomImages :
        Commit("load_rom",
               [Machine EXCEPT !.memory = load_rom(memory, byte_array),
                               !.args = <<byte_array>>])

NextMemory == DirectWriteByte \/ DirectReadByte \/ DirectReadWord \/ DirectLoadRom

SpecMemory == Init /\ [][NextMemory]_vars

(***************************************************************************)
(* Programs that store: Fx33, Fx55 and Fx65 fetched and executed by        *)
(* cycle(), with the index register behind the program, at the end of the  *)
(* glyph table, and two bytes before the end of memory.                    *)
(***************************************************************************)
StoreIndexes == {ROM_START_IDX + 256, FONTSET_START_ADDRESS + 5 * 16 - 2,
                 MEMORY_SIZE_IN_BYTES - 2}

\* a jump to the address of the k-th word of a program, counted from 0
JumpToWord(k) == Word(1, 0, 0, 0) + (ROM_START_IDX + 2 * k)

\* 6xkk Annn Fx33 and a jump to itself
BcdProgram(x, kk, nnn) ==
    <<Word(6, x, 0, 0) + kk, Word(10, 0, 0, 0) + nnn, Word(15, x, 3, 3),
      JumpToWord(3)>>

\* every byte in V0 behind the program; 7 and 255 in VF and at the other
\* indexes
BcdPrograms ==
    { BcdProgram(0, kk, ROM_START_IDX + 256) : kk \in 0 .. 255 }
        \cup { BcdProgram(x, kk, nnn) :
                    x \in {0, VF_IDX}, kk \in {7, 255}, nnn \in StoreIndexes }

\* V0 .. V3 set, Fx55, V0 .. V3 set to other bytes, Fx65, a jump to itself
ExchangeProgram(x, nnn) ==
    <<Word(6, 0, 1, 1), Word(6, 1, 2, 2), Word(6, 2, 3, 3), Word(6, 3, 4, 4),
      Word(10, 0, 0, 0) + nnn, Word(15, x, 5, 5),
      Word(6, 0, 9, 9), Word(6, 1, 9, 9), Word(6, 2, 9, 9), Word(6, 3, 9, 9),
      Word(15, x, 6, 5), JumpToWord(11)>>

ExchangeSizes == {0, 2, 15}

ExchangePrograms == { ExchangeProgram(x, nnn) : x \in ExchangeSizes, nnn \in StoreIndexes }

\* 255 dumped at 4094, VF set to 7, then a draw of the three bytes from 4094
CrossingDrawProgram ==
    <<Word(6, 0, 15, 15), Word(10, 15, 15, 14), Word(15, 0, 5, 5),
      Word(6, 15, 0, 7), Word(13, 1, 1, 3), JumpToWord(5)>>

\* 0x11 dumped at 4094, V0 and V1 set to 0x99, then V0 .. V2 loaded from 4094
CrossingLoadProgram ==
    <<Word(6, 0, 1, 1), Word(10, 15, 15, 14), Word(15, 0, 5, 5),
      Word(6, 0, 9, 9), Word(6, 1, 9, 9), Word(15, 2, 6, 5), JumpToWord(6)>>

StorePrograms ==
    BcdPrograms \cup ExchangePrograms \cup {CrossingDrawProgram, CrossingLoadProgram}

StoreLoadRom ==
    \/ /\ ~memory.rom_loaded
       /\ \E p \in StorePrograms :
            Commit("load_rom", [Machine EXCEPT !.memory = load_rom(memory, Image(p))])
    \/ /\ memory.rom_loaded
       /\ Commit("load_rom", [Machine EXCEPT !.memory = load_rom(memory, <<>>)])

NextStore == StoreLoadRom \/ Cycle

SpecStore == Init /\ [][NextStore]_vars

(***************************************************************************)
(* Input_ called directly, as its unit tests call it: start_waiting() and  *)
(* check_keystates_changed(), with the backend answering any set of keys.  *)
(***************************************************************************)
PolledKeys == {0, 1, 7, 8, 15}

PolledKeySets == SUBSET PolledKeys

DirectStartWaiting ==
    \E keys \in PolledKeySets :
        Commit("start_waiting",
               [Machine EXCEPT !.input_ = start_waiting(input_, keys),
                               !.args = <<keys>>])

\* called once start_waiting() has taken a snapshot
DirectCheckKeystatesChanged ==
    /\ input_.last_key_states # NotStarted
    /\ \E keys \in PolledKeySets :
        LET r == check_keystates_changed(input_, keys)
        IN  Commit("check_keystates_changed",
                   [Machine EXCEPT !.input_ = r.inp, !.key = r.val, !.ret = r.val,
                                   !.args = <<keys>>])

NextInput == DirectStartWaiting \/ DirectCheckKeystatesChanged

SpecInput == Init /\ [][NextInput]_vars

(***************************************************************************)
(* Key queries: key_pressed() and key_not_pressed() called directly, and   *)
(* programs that query a key with Ex9E and ExA1.                           *)
(***************************************************************************)
\* key codes at both ends of the keypad, and the nearest values outside it
QueriedKeys == {0 - 1, 0, 15, 16}

DirectKeyPressed ==
    \E key \in QueriedKeys, keys \in KeySets :
        LET r == key_pressed(keys, key)
        IN  Commit("key_pressed",
                   [Machine EXCEPT !.err = r.err, !.args = <<key, keys>>,
                                   !.ret = IF r.err = NoError THEN r.val ELSE None])

DirectKeyNotPressed ==
    \E key \in QueriedKeys, keys \in KeySets :
        LET r == key_not_pressed(keys, key)
        IN  Commit("key_not_pressed",
                   [Machine EXCEPT !.err = r.err, !.args = <<key, keys>>,
                                   !.ret = IF r.err = NoError THEN r.val ELSE None])

\* 6xkk, Ex9E or ExA1, and two jumps to themselves
KeyQueryProgram(x, kk, low_byte) ==
    <<Word(6, x, 0, 0) + kk, Word(14, x, 0, 0) + low_byte,
      JumpToWord(2), JumpToWord(3)>>

KeyQueryPrograms ==
    { KeyQueryProgram(x, kk, low_byte) :
        x \in {0, VF_IDX}, kk \in {1, 16}, low_byte \in {158, 161} }

KeyQueryLoadRom ==
    /\ ~memory.rom_loaded
    /\ \E p \in KeyQueryPrograms :
            Commit("load_rom", [Machine EXCEPT !.memory = load_rom(memory, Image(p))])

NextKeys == DirectKeyPressed \/ DirectKeyNotPressed \/ KeyQueryLoadRom \/ Cycle

SpecKeys == Init /\ [][NextKeys]_vars

(***************************************************************************)
(* Programs that compute on extreme register values and move the result    *)
(* into both timers and back, with update_timers() called between the      *)
(* steps as the emulator loop calls it.                                    *)
(***************************************************************************)
\* the values of V0 and V1
RegisterOperands == {<<255, 255>>, <<0, 1>>, <<128, 127>>}

\* 8014 8015 8016 8017 801E, 70FF, 8F14 8F05 (VF as destination), C0FF
RegisterWords ==
    { Word(8, 0, 1, n) : n \in {4, 5, 6, 7, 14} }
        \cup { Word(7, 0, 15, 15), Word(8, 15, 1, 4), Word(8, 15, 0, 5),
               Word(12, 0, 15, 15) }

\* 6xkk 6ykk, the instruction, Fx15 Fx18 on V0 and VF, Fx07, a jump to itself
RegisterProgram(o, w) ==
    <<Word(6, 0, 0, 0) + o[1], Word(6, 1, 0, 0) + o[2], w,
      Word(15, 0, 1, 5), Word(15, 15, 1, 8), Word(15, 2, 0, 7), JumpToWord(6)>>

RegisterPrograms ==
    { RegisterProgram(o, w) : o \in RegisterOperands, w \in RegisterWords }

RegisterLoadRom ==
    /\ ~memory.rom_loaded
    /\ result.op = "init"
    /\ \E p \in RegisterPrograms :
            Commit("load_rom", [Machine EXCEPT !.memory = load_rom(memory, Image(p))])

\* update_timers() called when one more timer period has elapsed
RegisterUpdateTimers ==
    /\ result.time_now + TimerPeriod <= MaxClock
    /\ Commit("update_timers", update_timers(Machine, result.time_now + TimerPeriod))

NextRegisters == RegisterLoadRom \/ Cycle \/ RegisterUpdateTimers

SpecRegisters == Init /\ [][NextRegisters]_vars

(***************************************************************************)
(* Programs that add to the index register in a loop: 6xkk Annn, then      *)
(* Fx1E and a jump back to it.                                             *)
(***************************************************************************)
\* the loops are followed until the index register has passed this value
MaxIndex == 65800

IndexProgram(kk, nnn) ==
    <<Word(6, 0, 0, 0) + kk, Word(10, 0, 0, 0) + nnn, Word(15, 0, 1, 14),
      JumpToWord(2)>>

IndexPrograms == { IndexProgram(kk, 4095) : kk \in {255, 128} }

IndexLoadRom ==
    /\ ~memory.rom_loaded
    /\ result.op = "init"
    /\ \E p \in IndexPrograms :
            Commit("load_rom", [Machine EXCEPT !.memory = load_rom(memory, Image(p))])

IndexCycle ==
    /\ memory.rom_loaded
    /\ cpu.i <= MaxIndex
    /\ Cycle

NextIndex == IndexLoadRom \/ IndexCycle

SpecIndex == Init /\ [][NextIndex]_vars

(***************************************************************************)
(* The driver: Emulator(game) loads the game, emulate() runs the loop.     *)
(* The game sets both timers, draws the glyph of 0, waits for a key and    *)
(* then spins.                                                             *)
(***************************************************************************)
\* 6005 F015 F018 A050 D005 F10A 120C
EmulatorGame ==
    <<Word(6, 0, 0, 5), Word(15, 0, 1, 5), Word(15, 0, 1, 8),
      Word(10, 0, 5, 0), Word(13, 0, 0, 5), Word(15, 1, 0, 10),
      Word(1, 0, 0, 0) + (ROM_START_IDX + 12)>>

\* the keys the keyboard holds down during a pass of the loop
EmulatorKeySets == {{}, {7}}

\* how long a sleep lasts beyond the delay asked for
MaxOversleep == 1

EmulatorLoadGame ==
    /\ ~memory.rom_loaded
    /\ result.op = "init"
    /\ Commit("load_rom", [Machine EXCEPT !.memory = load_rom(memory, Image(EmulatorGame))])

EmulateCycle ==
    /\ memory.rom_loaded
    /\ emulator.at = "cycle"
    /\ \E keys \in EmulatorKeySets, rnd \in RandomBytes :
        Commit("emulate_cycle", emulate_cycle(Machine, keys, rnd))

EmulateSleep ==
    /\ emulator.at = "sleep"
    /\ \E over \in 0 .. MaxOversleep :
        /\ result.time_now + emulator.delay_between_ops + over <= MaxClock
        /\ Commit("emulate_sleep",
                  emulate_sleep(Machine, emulator.delay_between_ops + over))

EmulateRefresh ==
    /\ emulator.at = "refresh"
    /\ Commit("emulate_refresh", emulate_refresh(Machine))

EmulateUpdateTimers ==
    /\ emulator.at = "update_timers"
    /\ Commit("emulate_update_timers", emulate_update_timers(Machine))

NextEmulator ==
    EmulatorLoadGame \/ EmulateCycle \/ EmulateSleep \/ EmulateRefresh
        \/ EmulateUpdateTimers

SpecEmulator == Init /\ [][NextEmulator]_vars

(***************************************************************************)
(* Properties                                                              *)
(***************************************************************************)
\* this step is a cycle() that fetches: the CPU is running and the word at
\* the program counter is inside memory
StepOn ==
    /\ result'.op = "cycle"
    /\ ~cpu.waiting_for_key
    /\ cpu.pc + 2 <= MEMORY_SIZE_IN_BYTES

\* the instruction word at the program counter
Instr == 256 * memory._memory[cpu.pc] + memory._memory[cpu.pc + 1]

Nib1(w) == w \div 4096

Nib2(w) == (w \div 256) % 16

Nib3(w) == (w \div 16) % 16

Nib4(w) == w % 16

KK(w) == w % 256

NNN(w) == w % 4096

\* the keys that are down after this step's poll and were up at the
\* previous snapshot
RisingKeys ==
    {k \in 0 .. 15 : input_'.last_key_states[k] /\ ~input_.last_key_states[k]}

CoreUnchanged ==
    /\ cpu'.pc = cpu.pc
    /\ cpu'.registers = cpu.registers
    /\ cpu'.i = cpu.i
    /\ cpu'.stack = cpu.stack
    /\ cpu'.sp = cpu.sp
    /\ memory' = memory
    /\ display' = display

\* C1: while the CPU waits for a key, a step whose poll sees no rising edge
\* fetches no instruction, leaves the program counter, the registers, the
\* index register, the stack, the stack pointer, memory and the display as
\* they were, and the CPU keeps waiting.
C1_WaitingStepWithoutKeyIsInert ==
    [][ (cpu.waiting_for_key /\ result'.op = "cycle" /\ RisingKeys = {})
            => (~result'.fetched /\ CoreUnchanged /\ cpu'.waiting_for_key) ]_vars

C1_Witness ==
    /\ cpu.waiting_for_key
    /\ result.op = "cycle"
    /\ ~result.fetched
    /\ result.key = None

\* C2: a step that executes Fx0A arms the baseline and makes the CPU wait;
\* the first later step whose poll sees a rising edge stores a key that rose
\* in register x of that Fx0A and in no other register, ends the wait
\* without fetching or executing an instruction, and leaves the program
\* counter right after the Fx0A, where the next fetch reads.
C2_KeyArrivalResumesAfterFx0A ==
    [][ /\ (StepOn /\ Nib1(Instr) = 15 /\ KK(Instr) = 10)
            => /\ cpu'.waiting_for_key
               /\ DOMAIN input_'.last_key_states = 0 .. 15
               /\ cpu'.pc = cpu.pc + 2
        /\ (cpu.waiting_for_key /\ result'.op = "cycle" /\ RisingKeys # {})
            => /\ Nib1(cpu.opcode) = 15 /\ KK(cpu.opcode) = 10
               /\ 256 * memory._memory[cpu.pc - 2] + memory._memory[cpu.pc - 1] = cpu.opcode
               /\ \E k \in RisingKeys :
                    cpu'.registers = [cpu.registers EXCEPT ![Nib2(cpu.opcode)] = k]
               /\ ~cpu'.waiting_for_key
               /\ ~result'.fetched
               /\ cpu'.pc = cpu.pc
               /\ cpu'.i = cpu.i /\ cpu'.stack = cpu.stack /\ cpu'.sp = cpu.sp
               /\ memory' = memory /\ display' = display
        /\ (result'.op = "cycle" /\ result'.fetched)
            => (~cpu.waiting_for_key /\ result'.fetch_addr = cpu.pc) ]_vars

C2_Witness ==
    /\ result.op = "cycle"
    /\ result.key = 15
    /\ ~result.fetched
    /\ ~cpu.waiting_for_key
    /\ cpu.opcode = 62218
    /\ cpu.registers[3] = 15
    /\ cpu.pc = ROM_START_IDX + 2

\* C3: through cycle(), a call 2nnn at address P stores P at the top of the
\* stack, increments the stack pointer and sets the program counter to nnn;
\* the return that matches it leaves the program counter at P + 2.
C3_CallThenReturnResumesAfterCall ==
    [][ /\ (StepOn /\ Nib1(Instr) = 2 /\ cpu.sp < STACK_SIZE)
            => /\ cpu'.stack = [cpu.stack EXCEPT ![cpu.sp] = cpu.pc]
               /\ cpu'.sp = cpu.sp + 1
               /\ cpu'.pc = NNN(Instr)
        /\ (StepOn /\ Instr = 238 /\ result.call_sites # <<>>)
            => /\ result'.err = NoError
               /\ cpu'.pc = result.call_sites[Len(result.call_sites)] + 2 ]_vars

C3_Witness ==
    /\ result.op = "cycle"
    /\ result.err = NoError
    /\ cpu.opcode = 238
    /\ cpu.sp = 0
    /\ cpu.stack[0] = ROM_START_IDX
    /\ cpu.pc = ROM_START_IDX + 2

C6_ReturnOnEmptyStackFails ==
    [][ (StepOn /\ Instr = 238 /\ cpu.sp = 0)
            => /\ result'.err = RuntimeError
               /\ cpu'.sp = 0
               /\ cpu'.stack = cpu.stack
               /\ cpu'.pc = cpu.pc
               /\ cpu'.registers = cpu.registers ]_vars

C6_Witness ==
    /\ result.op = "cycle"
    /\ result.err = RuntimeError
    /\ cpu.opcode = 238
    /\ cpu.sp = 0

\* the instruction words of the opcode table
DefinedOpcode(w) ==
    \/ w \in {224, 238}
    \/ Nib1(w) \in {1, 2, 3, 4, 6, 7, 10, 11, 12, 13}
    \/ Nib1(w) \in {5, 9} /\ Nib4(w) = 0
    \/ Nib1(w) = 8 /\ Nib4(w) \in {0, 1, 2, 3, 4, 5, 6, 7, 14}
    \/ Nib1(w) = 14 /\ KK(w) \in {158, 161}
    \/ Nib1(w) = 15 /\ KK(w) \in {7, 10, 21, 24, 30, 41, 51, 85, 101}

\* C7: every instruction word outside the opcode table makes the step fail
\* with UnsupportedOpcodeError.
C7_UndefinedOpcodeFails ==
    [][ (StepOn /\ ~DefinedOpcode(Instr))
            => result'.err = UnsupportedOpcodeError ]_vars

\* C8: a step that fails with UnsupportedOpcodeError leaves the registers,
\* the program counter, the index register, the stack, the stack pointer,
\* the timers, the waiting flag, memory and the display as they were.
C8_UnsupportedOpcodeChangesNothing ==
    [][ (result'.op = "cycle" /\ result'.err = UnsupportedOpcodeError)
            => /\ CoreUnchanged
               /\ cpu'.delay_timer = cpu.delay_timer
               /\ cpu'.sound_timer = cpu.sound_timer
               /\ cpu'.waiting_for_key = cpu.waiting_for_key ]_vars

C8_Witness ==
    /\ result.op = "cycle"
    /\ result.err = UnsupportedOpcodeError
    /\ cpu.opcode = 61951
    /\ cpu.registers[1] = 255
    /\ cpu.pc = ROM_START_IDX + 2

\* the last call was a cycle() that executed a jump or a call
AfterJumpOrCall ==
    /\ result.op = "cycle"
    /\ result.fetched
    /\ result.err = NoError
    /\ Nib1(cpu.opcode) \in {1, 2, 11}

\* C9: 1nnn leaves the program counter at nnn and Bnnn at nnn + V0, without
\* the +2 advance; pc_modified is false at the end of every step, and the
\* step after a jump or a call, when it executes a load, add or set-index
\* instruction, advances the program counter by 2.
C9_JumpSetsCounterAndFlagResets ==
    [][ /\ ~cpu'.pc_modified
        /\ (StepOn /\ Nib1(Instr) = 1) => cpu'.pc = NNN(Instr)
        /\ (StepOn /\ Nib1(Instr) = 11) => cpu'.pc = NNN(Instr) + cpu.registers[0]
        /\ (StepOn /\ AfterJumpOrCall /\ Nib1(Instr) \in {6, 7, 10, 12})
            => cpu'.pc = cpu.pc + 2 ]_vars

C9_Witness ==
    /\ result.op = "cycle"
    /\ result.fetch_addr = 518
    /\ cpu.opcode = 24833
    /\ cpu.sp = 0
    /\ cpu.pc = 520
    /\ ~cpu.pc_modified

\* the skip instructions 3xkk, 4xkk, 5xy0, 9xy0, Ex9E and ExA1
IsSkip(w) ==
    \/ Nib1(w) \in {3, 4}
    \/ Nib1(w) \in {5, 9} /\ Nib4(w) = 0
    \/ Nib1(w) = 14 /\ KK(w) \in {158, 161}

\* the condition of the skip instruction at the program counter; for the
\* key skips, from what the backend answered in this step
SkipCondition ==
    LET w  == Instr
        vx == cpu.registers[Nib2(w)]
        vy == cpu.registers[Nib3(w)]
    IN  CASE Nib1(w) = 3  -> vx = KK(w)
          [] Nib1(w) = 4  -> vx # KK(w)
          [] Nib1(w) = 5  -> vx = vy
          [] Nib1(w) = 9  -> vx # vy
          [] Nib1(w) = 14 /\ KK(w) = 158 -> result'.pressed = "down"
          [] Nib1(w) = 14 /\ KK(w) = 161 -> result'.pressed # "down"
          [] OTHER -> FALSE

SkipEffect ==
    /\ result'.err = NoError
    /\ cpu'.pc = cpu.pc + (IF SkipCondition THEN 4 ELSE 2)
    /\ cpu'.registers = cpu.registers
    /\ memory' = memory
    /\ display' = display

\* C10 as stated: every skip instruction advances the program counter by 4
\* when its condition holds and by 2 when it does not, for all register
\* values and immediates, and changes no register, memory cell or pixel.
C10_SkipAdvancesForAllValues ==
    [][ (StepOn /\ IsSkip(Instr)) => SkipEffect ]_vars

\* C10 amended: the same for 3xkk, 4xkk, 5xy0 and 9xy0 for all values, and
\* for Ex9E and ExA1 when Vx holds a key code 0 .. 15; with Vx above 15 the
\* key skips fail with KeyError and leave the program counter, the
\* registers, memory and the display unchanged.
C10_SkipAdvancesForValidKeys ==
    [][ (StepOn /\ IsSkip(Instr))
            => IF Nib1(Instr) = 14 /\ cpu.registers[Nib2(Instr)] > 15
               THEN result'.err = KeyError /\ CoreUnchanged
               ELSE SkipEffect ]_vars

C10_Witness ==
    /\ result.op = "cycle"
    /\ result.err = NoError
    /\ cpu.opcode = 57761
    /\ result.pressed = "up"
    /\ cpu.registers[1] = 15
    /\ cpu.pc = ROM_START_IDX + 6

SaturatingDecrement(t) == IF t > 0 THEN t - 1 ELSE 0

\* C11: every update_timers() call lowers delay_timer and sound_timer by at
\* most 1 each and never below 0, however many periods of 1/60 second have
\* elapsed since the last tick: a call that finds one period or more
\* elapsed lowers each non-zero timer by exactly 1.
C11_TimersDropAtMostOnePerCall ==
    [][ result'.op = "update_timers"
            => /\ cpu'.delay_timer \in {cpu.delay_timer, cpu.delay_timer - 1}
               /\ cpu'.sound_timer \in {cpu.sound_timer, cpu.sound_timer - 1}
               /\ cpu'.delay_timer >= 0
               /\ cpu'.sound_timer >= 0
               /\ (result'.time_now - cpu.last_timer_update >= TimerPeriod)
                    => /\ cpu'.delay_timer = SaturatingDecrement(cpu.delay_timer)
                       /\ cpu'.sound_timer = SaturatingDecrement(cpu.sound_timer) ]_vars

C11_Witness ==
    /\ result.op = "update_timers"
    /\ result.elapsed >= 2 * TimerPeriod
    /\ cpu.delay_timer = 2
    /\ cpu.sound_timer = 0

\* C12: an update_timers() call ticks exactly when the time since
\* last_timer_update is at least 1/60 second; a call that ticks lowers each
\* non-zero timer by 1 and sets last_timer_update to its clock reading, also
\* when both timers are 0; a call that does not tick changes nothing; and
\* of two calls less than 1/60 second apart at most one ticks.
C12_TimerGate ==
    [][ result'.op = "update_timers"
            => /\ result'.ticked
                    <=> (result'.time_now - cpu.last_timer_update >= TimerPeriod)
               /\ result'.ticked
                    => /\ cpu'.last_timer_update = result'.time_now
                       /\ cpu'.delay_timer = SaturatingDecrement(cpu.delay_timer)
                       /\ cpu'.sound_timer = SaturatingDecrement(cpu.sound_timer)
               /\ ~result'.ticked => cpu' = cpu
               /\ (/\ result.op = "update_timers"
                   /\ result'.time_now - result.time_now < TimerPeriod)
                    => ~(result.ticked /\ result'.ticked) ]_vars

C12_Witness ==
    /\ result.op = "update_timers"
    /\ ~result.ticked
    /\ result.elapsed = TimerPeriod - 1
    /\ result.time_now = cpu.last_timer_update + TimerPeriod - 1
    /\ cpu.last_timer_update > 0
    /\ cpu.delay_timer = 2

\* this step executes 8xyN at the program counter
Arith(n) == StepOn /\ Nib1(Instr) = 8 /\ Nib4(Instr) = n

\* the operands of the instruction at the program counter
Vx == cpu.registers[Nib2(Instr)]

Vy == cpu.registers[Nib3(Instr)]

\* the registers after the step: the flag in VF, the result in Vx
FlagAndResult(flag, res) ==
    /\ result'.err = NoError
    /\ cpu'.registers = [cpu.registers EXCEPT ![VF_IDX] = flag, ![Nib2(Instr)] = res]

\* C13: for Vx, Vy in 0 .. 255 and x other than F, 8xy4 leaves
\* Vx = (Vx + Vy) mod 256 and VF = 1 if Vx + Vy exceeds 255, else 0.
C13_AddWithCarry ==
    [][ (Arith(4) /\ Nib2(Instr) # VF_IDX)
            => FlagAndResult(IF Vx + Vy > 255 THEN 1 ELSE 0, (Vx + Vy) % 256) ]_vars

C13_Witness ==
    /\ result.op = "cycle"
    /\ result.err = NoError
    /\ cpu.opcode = 33060
    /\ cpu.registers[1] = 255
    /\ cpu.registers[2] = 128
    /\ cpu.registers[VF_IDX] = 0

\* C14: for Vx, Vy in 0 .. 255 and x other than F, 8xy5 leaves
\* Vx = (Vx - Vy) mod 256 with VF = 0 iff Vx < Vy, and 8xy7 leaves
\* Vx = (Vy - Vx) mod 256 with VF = 0 iff Vy < Vx; equal operands give
\* result 0 and VF = 1.
C14_SubtractWithBorrow ==
    [][ /\ (Arith(5) /\ Nib2(Instr) # VF_IDX)
            => /\ FlagAndResult(IF Vx < Vy THEN 0 ELSE 1,
                                IF Vx < Vy THEN Vx - Vy + 256 ELSE Vx - Vy)
               /\ Vx = Vy => (cpu'.registers[Nib2(Instr)] = 0 /\ cpu'.registers[VF_IDX] = 1)
        /\ (Arith(7) /\ Nib2(Instr) # VF_IDX)
            => /\ FlagAndResult(IF Vy < Vx THEN 0 ELSE 1,
                                IF Vy < Vx THEN Vy - Vx + 256 ELSE Vy - Vx)
               /\ Vx = Vy => (cpu'.registers[Nib2(Instr)] = 0 /\ cpu'.registers[VF_IDX] = 1)
      ]_vars

C14_Witness ==
    /\ result.op = "cycle"
    /\ result.err = NoError
    /\ cpu.opcode = 33063
    /\ cpu.registers[1] = 129
    /\ cpu.registers[2] = 0
    /\ cpu.registers[VF_IDX] = 0

\* C15: for Vx in 0 .. 255 and x other than F, 8xy6 leaves VF = bit 0 of Vx
\* and Vx = Vx div 2; 8xyE leaves VF = bit 7 of Vx, as 0 or 1, and
\* Vx = (Vx mod 128) * 2, at most 255; Vy has no part in either result.
C15_Shifts ==
    [][ /\ (Arith(6) /\ Nib2(Instr) # VF_IDX)
            => FlagAndResult(Vx % 2, Vx \div 2)
        /\ (Arith(14) /\ Nib2(Instr) # VF_IDX)
            => /\ FlagAndResult(Vx \div 128, (Vx % 128) * 2)
               /\ cpu'.registers[Nib2(Instr)] <= 255 ]_vars

C15_Witness ==
    /\ result.op = "cycle"
    /\ result.err = NoError
    /\ cpu.opcode = 33070
    /\ cpu.registers[1] = 254
    /\ cpu.registers[2] = 0
    /\ cpu.registers[VF_IDX] = 1

\* the arithmetic result of 8xyN on the operand values vx and vy
ArithResult(n, vx, vy) ==
    CASE n = 4  -> (vx + vy) % 256
      [] n = 5  -> IF vx < vy THEN vx - vy + 256 ELSE vx - vy
      [] n = 6  -> vx \div 2
      [] n = 7  -> IF vy < vx THEN vy - vx + 256 ELSE vy - vx
      [] n = 14 -> (vx % 128) * 2

\* C16: for 8xy4, 8xy5, 8xy6, 8xy7 and 8xyE with x = F the flag is written
\* first and the arithmetic result second: after the step VF holds the
\* arithmetic result of the operand values read before the step, the flag
\* is gone, and no other register has changed.
C16_FlagDestinationKeepsResult ==
    [][ \A n \in {4, 5, 6, 7, 14} :
            (Arith(n) /\ Nib2(Instr) = VF_IDX)
                => /\ result'.err = NoError
                   /\ cpu'.registers =
                        [cpu.registers EXCEPT ![VF_IDX] = ArithResult(n, Vx, Vy)] ]_vars

C16_Witness ==
    /\ result.op = "cycle"
    /\ result.err = NoError
    /\ cpu.opcode = 36644
    /\ cpu.registers[2] = 128
    /\ cpu.registers[VF_IDX] = 127

\* C17: for every register x and immediate kk, 7xkk sets Vx to
\* (Vx + kk) mod 256 and changes no other register: with x other than F the
\* flags register keeps its value, also when the sum overflows.
C17_AddImmediateWraps ==
    [][ (StepOn /\ Nib1(Instr) = 7)
            => /\ result'.err = NoError
               /\ cpu'.registers =
                    [cpu.registers EXCEPT ![Nib2(Instr)] = (Vx + KK(Instr)) % 256] ]_vars

C17_Witness ==
    /\ result.op = "cycle"
    /\ result.err = NoError
    /\ cpu.opcode = 29183
    /\ cpu.registers[1] = 127
    /\ cpu.registers[VF_IDX] = 7

\* the set bits <<i, j>> of a sprite: row i, bit j counted from the most
\* significant
SetBits(rows) ==
    { h \in (0 .. Len(rows) - 1) \X (0 .. 7) :
        (rows[h[1] + 1] \div Pow(2, 7 - h[2])) % 2 = 1 }

\* the pixel <<x, y>> that bit h of a sprite drawn at x0, y0 lands on
Lands(x0, y0, h) == <<(x0 + h[2]) % 64, (y0 + h[1]) % 32>>

\* bit g is processed before bit h: rows in order, bits from the left
Earlier(g, h) == g[1] < h[1] \/ (g[1] = h[1] /\ g[2] < h[2])

Odd(n) == n % 2 = 1

\* the pixel under set bit h is on when h is processed: its value in frame
\* scr, flipped once by every earlier set bit that landed on it
OnWhenProcessed(scr, x0, y0, rows, h) ==
    LET p == Lands(x0, y0, h)
    IN  scr[p[2]][p[1]]
            # Odd(Cardinality({ g \in SetBits(rows) :
                                Lands(x0, y0, g) = p /\ Earlier(g, h) }))

\* this step is a draw_sprite() call on the display
DrawOn == result'.op = "draw_sprite"

\* C18: draw_sprite returns True iff at least one set bit of the sprite
\* lands, at its wrapped coordinate, on a pixel that is on when that bit is
\* processed; a sprite without set bits, or without rows, returns False and
\* changes no pixel.
C18_CollisionIffSetBitOnLitPixel ==
    [][ DrawOn =>
            LET x0   == result'.args[1]
                y0   == result'.args[2]
                rows == result'.args[3]
            IN  /\ result'.ret
                    = (\E h \in SetBits(rows) :
                            OnWhenProcessed(display.screen, x0, y0, rows, h))
                /\ SetBits(rows) = {}
                    => (result'.ret = FALSE /\ display' = display) ]_vars

C18_Witness ==
    /\ result.op = "draw_sprite"
    /\ result.args = <<62, 31, TallSprite>>
    /\ result.before = BlankScreen
    /\ result.ret = TRUE
    /\ display.screen = [BlankScreen EXCEPT ![31][63] = TRUE]

\* the pixels that an odd number of set bits of the sprite land on
FlippedPixels(x0, y0, rows) ==
    LET bits == SetBits(rows)
    IN  { p \in { Lands(x0, y0, h) : h \in bits } :
            Odd(Cardinality({ h \in bits : Lands(x0, y0, h) = p })) }

\* frame scr with the pixels <<x, y>> of the set flipped
XorInto(scr, pixels) ==
    [y \in 0 .. 31 |-> [x \in 0 .. 63 |-> scr[y][x] # (<<x, y>> \in pixels)]]

\* C19: draw_sprite(x0, y0, rows) XORs bit j, counted from the most
\* significant, of row i into the pixel at column (x0 + j) mod 64 and row
\* (y0 + i) mod 32, also for origins beyond the grid: a pixel is flipped
\* once for every set bit that lands on it, every other pixel of screen
\* and all of prev_screen are unchanged.
C19_DrawXorsAtWrappedCoordinates ==
    [][ DrawOn =>
            /\ \A pixels \in {FlippedPixels(result'.args[1], result'.args[2],
                                              result'.args[3])} :
                    display'.screen = XorInto(display.screen, pixels)
            /\ display'.prev_screen = display.prev_screen ]_vars

C19_Witness ==
    /\ result.op = "draw_sprite"
    /\ result.args = <<100, 50, <<240, 1>>>>
    /\ result.before = BlankScreen
    /\ result.ret = FALSE
    /\ \A x \in 36 .. 39 : display.screen[18][x]
    /\ ~display.screen[18][40]
    /\ display.screen[19][43]

\* C20: a draw_sprite call that repeats the call before it, same sprite and
\* same origin, leaves screen as it was before the first of the two, for
\* every sprite, origin and starting frame; when the sprite has at most 15
\* rows and at least one set bit, and the pixels its set bits land on were
\* all off before the first call, the first call returns False and the
\* second True.
C20_DrawTwiceRestores ==
    [][ (DrawOn /\ result.op = "draw_sprite" /\ result'.args = result.args)
            => LET x0   == result.args[1]
                   y0   == result.args[2]
                   rows == result.args[3]
                   bits == SetBits(rows)
               IN  /\ display'.screen = result.before
                   /\ (/\ Len(rows) <= 15
                       /\ bits # {}
                       /\ \A h \in bits :
                            ~result.before[Lands(x0, y0, h)[2]][Lands(x0, y0, h)[1]])
                        => (result.ret = FALSE /\ result'.ret = TRUE) ]_vars

C20_Witness ==
    /\ result.op = "draw_sprite"
    /\ result.draws = 2
    /\ result.args = <<62, 31, <<240, 1>>>>
    /\ result.ret = TRUE
    /\ result.before = [BlankScreen EXCEPT ![31][62] = TRUE, ![31][63] = TRUE,
                                            ![31][0] = TRUE, ![31][1] = TRUE,
                                            ![0][5] = TRUE]
    /\ display.screen = BlankScreen

\* the N bytes at index .. index+N-1, as a sprite
SpriteAtIndex == [k \in 1 .. Nib4(Instr) |-> memory._memory[cpu.i + (k - 1)]]

\* C21: a Dxyn step whose N bytes at index .. index+N-1 lie inside memory
\* draws exactly those bytes at the origin (Vx, Vy): screen becomes the old
\* screen with the sprite XORed in, VF becomes 1 if a set bit landed on a
\* pixel that was on and 0 otherwise, whatever VF held before; with N = 0 no
\* pixel changes and VF becomes 0; the other registers, the index register
\* and memory are unchanged.
C21_DrawInstruction ==
    [][ (StepOn /\ Nib1(Instr) = 13 /\ cpu.i + Nib4(Instr) <= MEMORY_SIZE_IN_BYTES)
            => LET x0 == cpu.registers[Nib2(Instr)]
                   y0 == cpu.registers[Nib3(Instr)]
               IN  \A rows \in {SpriteAtIndex} :
                     /\ result'.err = NoError
                     /\ \A pixels \in {FlippedPixels(x0, y0, rows)} :
                            display'.screen = XorInto(display.screen, pixels)
                     /\ cpu'.registers[VF_IDX]
                            = IF \E h \in SetBits(rows) :
                                    OnWhenProcessed(display.screen, x0, y0, rows, h)
                              THEN 1 ELSE 0
                     /\ \A r \in 0 .. REGISTER_COUNT - 2 :
                            cpu'.registers[r] = cpu.registers[r]
                     /\ Nib4(Instr) = 0
                            => (display' = display /\ cpu'.registers[VF_IDX] = 0)
                     /\ cpu'.i = cpu.i
                     /\ memory' = memory ]_vars

\* the third draw of the 5-row glyph of 0 at (62, 31): the second draw
\* collided and erased the glyph, this one draws it again and clears VF
C21_Witness ==
    /\ result.op = "cycle"
    /\ result.err = NoError
    /\ cpu.opcode = Word(13, 0, 1, 5)
    /\ cpu.pc = ROM_START_IDX + 12
    /\ cpu.i = FONTSET_START_ADDRESS
    /\ cpu.registers[0] = 62 /\ cpu.registers[1] = 31
    /\ cpu.registers[VF_IDX] = 0
    /\ display.screen[31][62] /\ display.screen[31][1] /\ display.screen[3][62]
    /\ ~display.screen[0][63]

\* the cell that a print of refresh() addresses for pixel <<x, y>>, with the
\* text for the state on
Emitted(x, y, on) == <<y + 1, x * 2 + 1, IF on THEN LitCell ELSE DarkCell>>

\* the prints of this step, as a set, none of them made twice
PrintedCells == { result'.printed[k] : k \in 1 .. Len(result'.printed) }

PrintedOnce == Cardinality(PrintedCells) = Len(result'.printed)

\* C22: refresh() prints exactly the cells where screen differs from
\* prev_screen, each once and with the state it has in screen; it leaves
\* screen as it is and makes prev_screen equal to screen; a refresh() that
\* follows a refresh() with no draw or clear in between prints nothing.
C22_RefreshEmitsDifference ==
    [][ result'.op = "refresh" =>
            /\ PrintedOnce
            /\ PrintedCells
                    = { Emitted(p[1], p[2], display.screen[p[2]][p[1]]) :
                          p \in { q \in (0 .. 63) \X (0 .. 31) :
                                    display.screen[q[2]][q[1]]
                                        # display.prev_screen[q[2]][q[1]] } }
            /\ display'.screen = display.screen
            /\ display'.prev_screen = display.screen
            /\ result.op = "refresh" => result'.printed = <<>> ]_vars

\* the pixel (0, 0) was drawn and shown, then erased by a second draw: the
\* refresh after it prints one dark cell
C22_Witness ==
    /\ result.op = "refresh"
    /\ result.draws = 2
    /\ result.printed = << <<1, 1, DarkCell>> >>
    /\ display.screen = BlankScreen
    /\ display.prev_screen = BlankScreen

\* C23: clear_screen() sets every pixel of screen off and leaves
\* prev_screen as it is, so the refresh() right after a clear_screen()
\* prints a dark cell for exactly the pixels that were on at the refresh()
\* before, and nothing else.
C23_ClearThenRefreshTurnsOff ==
    [][ /\ result'.op = "clear_screen" =>
              /\ display'.screen = BlankScreen
              /\ display'.prev_screen = display.prev_screen
        /\ (result.op = "clear_screen" /\ result'.op = "refresh") =>
              /\ PrintedOnce
              /\ PrintedCells
                    = { Emitted(p[1], p[2], FALSE) :
                          p \in { q \in (0 .. 63) \X (0 .. 31) :
                                    display.prev_screen[q[2]][q[1]] } } ]_vars

\* one draw of two rows at (62, 31), shown, then cleared: the refresh after
\* the clear prints a dark cell for each of the five pixels
C23_Witness ==
    /\ result.op = "refresh"
    /\ result.draws = 1
    /\ result.printed = << <<1, 11, DarkCell>>, <<32, 1, DarkCell>>,
                           <<32, 3, DarkCell>>, <<32, 125, DarkCell>>,
                           <<32, 127, DarkCell>> >>
    /\ display.screen = BlankScreen
    /\ display.prev_screen = BlankScreen

\* the address of this step's call on memory
Addr == result'.args[1]

ValidAddress(a) == a >= 0 /\ a < MEMORY_SIZE_IN_BYTES

\* C24: write_byte(a, v) with a in 0 .. 4095 and v in 0 .. 255 returns and
\* changes the byte at a to v and nothing else, and a read_byte(a) right
\* after it returns v; with a value outside 0 .. 255 it raises
\* ByteOverflowError and leaves memory as it was.
C24_WriteThenReadRoundTrip ==
    [][ /\ (result'.op = "write_byte" /\ ValidAddress(Addr)) =>
              IF result'.args[2] >= 0 /\ result'.args[2] <= 255
              THEN /\ result'.err = NoError
                   /\ memory' = [memory EXCEPT !._memory[Addr] = result'.args[2]]
              ELSE /\ result'.err = ByteOverflowError
                   /\ memory' = memory
        /\ (/\ result.op = "write_byte" /\ result.err = NoError
            /\ ValidAddress(result.args[1])
            /\ result'.op = "read_byte" /\ Addr = result.args[1]) =>
              /\ result'.err = NoError
              /\ result'.ret = result.args[2] ]_vars

\* 255 read back from the last address of a memory that holds no program
C24_Witness ==
    /\ result.op = "read_byte"
    /\ result.args = <<MEMORY_SIZE_IN_BYTES - 1>>
    /\ result.err = NoError
    /\ result.ret = 255
    /\ ~memory.rom_loaded

\* C25: every read_byte or write_byte call whose address lies outside
\* 0 .. MEMORY_SIZE_IN_BYTES - 1 raises MemoryOutOfBoundsError, returns no
\* byte and leaves memory as it was.
C25_OutOfRangeAddressFails ==
    [][ (result'.op \in {"read_byte", "write_byte"} /\ ~ValidAddress(Addr)) =>
            /\ result'.err = MemoryOutOfBoundsError
            /\ result'.ret = None
            /\ memory' = memory ]_vars

\* C26: read_word(a) never changes memory; with a + 2 <= 4096 it returns
\* 256 * read_byte(a) + read_byte(a + 1) when both reads return, which they
\* do for every a from 0 on, and raises when one of them raises; with
\* a + 2 > 4096, a = 4095 included, it raises MemoryOutOfBoundsError.
C26_ReadWordIsBigEndian ==
    [][ result'.op = "read_word" =>
            /\ memory' = memory
            /\ IF Addr + 2 > MEMORY_SIZE_IN_BYTES
               THEN result'.err = MemoryOutOfBoundsError
               ELSE LET high == read_byte(memory, Addr)
                        low  == read_byte(memory, Addr + 1)
                    IN  /\ Addr >= 0 => result'.err = NoError
                        /\ IF high.err = NoError /\ low.err = NoError
                           THEN /\ result'.err = NoError
                                /\ result'.ret = 256 * high.val + low.val
                           ELSE result'.err # NoError ]_vars

\* the word at the last address a word fits at: the byte 255 of the image
\* that fills memory, and the 7 written behind it
C26_Witness ==
    /\ result.op = "read_word"
    /\ result.args = <<MEMORY_SIZE_IN_BYTES - 2>>
    /\ result.err = NoError
    /\ result.ret = 256 * 255 + 7
    /\ memory.rom_loaded

\* C27: the first load_rom() copies the bytes of the image, in order, to
\* the addresses from 0x200 on, changes no address below 0x200 and sets
\* rom_loaded; a load_rom() on a memory that holds a program, an empty one
\* included, leaves _memory and rom_loaded as they were, whatever the image.
C27_LoadOnceAtRomStart ==
    [][ result'.op = "load_rom" =>
            IF memory.rom_loaded THEN memory' = memory
            ELSE LET byte_array == result'.args[1]
                 IN  /\ memory'.rom_loaded
                     /\ \A k \in 1 .. Len(byte_array) :
                            memory'._memory[ROM_START_IDX + (k - 1)] = byte_array[k]
                     /\ \A a \in 0 .. ROM_START_IDX - 1 :
                            memory'._memory[a] = memory._memory[a] ]_vars

\* a short image offered to a memory that was loaded with the empty image:
\* address 0x200 still holds 0, address 0 still holds the 7 written before
C27_Witness ==
    /\ result.op = "load_rom"
    /\ result.args = << <<18, 52, 86>> >>
    /\ memory.rom_loaded
    /\ memory._memory[ROM_START_IDX] = 0
    /\ memory._memory[0] = 7

\* the bytes at 0x050 .. 0x09F of a memory
GlyphTable(mem) ==
    [k \in 1 .. 5 * 16 |-> mem._memory[FONTSET_START_ADDRESS + (k - 1)]]

\* this step executes Fx33 or Fx55
StoreStep == StepOn /\ BitAnd(Instr, 61695) \in {61491, 61525}

\* the addresses the store of this step is to write: three from the index
\* register for Fx33, x + 1 for Fx55
StoreTargets ==
    cpu.i .. cpu.i + (IF BitAnd(Instr, 255) = 51 THEN 2 ELSE Nib2(Instr))

C29_StoreBcd ==
    [][ (StepOn /\ BitAnd(Instr, 61695) = 61491 /\ cpu.i + 3 <= MEMORY_SIZE_IN_BYTES) =>
            LET v == cpu.registers[Nib2(Instr)]
                I == cpu.i
            IN  /\ result'.err = NoError
                /\ v \in 0 .. 255
                /\ memory'._memory[I] = v \div 100
                /\ memory'._memory[I + 1] = (v \div 10) % 10
                /\ memory'._memory[I + 2] = v % 10
                /\ \A j \in 0 .. 2 : memory'._memory[I + j] \in 0 .. 9
                /\ 100 * memory'._memory[I] + 10 * memory'._memory[I + 1]
                        + memory'._memory[I + 2] = v
                /\ memory' = [memory EXCEPT !._memory[I] = memory'._memory[I],
                                             !._memory[I + 1] = memory'._memory[I + 1],
                                             !._memory[I + 2] = memory'._memory[I + 2]]
                /\ cpu'.registers = cpu.registers
                /\ cpu'.i = cpu.i ]_vars

\* 209 in V0 stored behind the program as 2, 0, 9
C29_Witness ==
    /\ result.op = "cycle"
    /\ result.err = NoError
    /\ cpu.opcode = Word(15, 0, 3, 3)
    /\ cpu.registers[0] = 209
    /\ cpu.i = ROM_START_IDX + 256
    /\ memory._memory[ROM_START_IDX + 256] = 2
    /\ memory._memory[ROM_START_IDX + 257] = 0
    /\ memory._memory[ROM_START_IDX + 258] = 9

\* C30: an Fx55 step with index + x inside memory writes V0 .. Vx to the
\* addresses index .. index + x, register k at index + k, and changes no
\* other byte and no register; an Fx65 step with index + x inside memory
\* reads V0 .. Vx from these addresses and changes no byte of memory; an
\* Fx65 that follows an Fx55 with the same x and index, memory not written
\* in between, gives V0 .. Vx the values they had at the Fx55; neither
\* instruction changes a register above x or the index register, also when
\* it runs past the end of memory.
C30_DumpAndLoadAreInverse ==
    [][ (StepOn /\ BitAnd(Instr, 61695) \in {61525, 61541}) =>
            LET x == Nib2(Instr)
                I == cpu.i
            IN  /\ cpu'.i = cpu.i
                /\ \A r \in x + 1 .. REGISTER_COUNT - 1 :
                        cpu'.registers[r] = cpu.registers[r]
                /\ (BitAnd(Instr, 255) = 85 /\ I + x < MEMORY_SIZE_IN_BYTES) =>
                      /\ result'.err = NoError
                      /\ memory'._memory
                            = [a \in DOMAIN memory._memory |->
                                  IF a \in I .. I + x THEN cpu.registers[a - I]
                                  ELSE memory._memory[a]]
                      /\ cpu'.registers = cpu.registers
                /\ (BitAnd(Instr, 255) = 101 /\ I + x < MEMORY_SIZE_IN_BYTES) =>
                      /\ result'.err = NoError
                      /\ \A r \in 0 .. x : cpu'.registers[r] = memory._memory[I + r]
                      /\ memory' = memory
                /\ (/\ BitAnd(Instr, 255) = 101
                    /\ result.dumped # <<>>
                    /\ result.dumped[1] = x
                    /\ result.dumped[2] = I
                    /\ result'.err = NoError) =>
                      \A r \in 0 .. x : cpu'.registers[r] = result.dumped[3][r] ]_vars

\* F265 after F255 behind the program: V0 .. V2 are back from 0x99 to what
\* was dumped, V3 keeps 0x99
C30_Witness ==
    /\ result.op = "cycle"
    /\ result.err = NoError
    /\ cpu.opcode = Word(15, 2, 6, 5)
    /\ cpu.i = ROM_START_IDX + 256
    /\ result.dumped # <<>>
    /\ result.dumped[1] = 2
    /\ cpu.registers[0] = 17 /\ cpu.registers[1] = 34 /\ cpu.registers[2] = 51
    /\ cpu.registers[3] = 153

\* this step is a check_keystates_changed() call
PollOn == result'.op = "check_keystates_changed"

\* the keys the backend reports as held during this step's call
HeldNow == result'.args[1]

\* the keys held now that were not held in the last snapshot
Risen == { k \in HeldNow : ~input_.last_key_states[k] }

\* C31: check_keystates_changed() returns key k only if k was not held in
\* the last snapshot (taken by start_waiting() or by the poll before) and
\* is held now; a key held in the last snapshot and still held is not
\* returned; when exactly one key has risen the poll returns it, and the
\* poll after it, with the key still held, does not return it again.
C31_ReportsRisingEdgeOnce ==
    [][ PollOn =>
            /\ result'.ret # None => result'.ret \in Risen
            /\ \A k \in HeldNow : input_.last_key_states[k] => result'.ret # k
            /\ \A k \in 0 .. 15 : Risen = {k} => result'.ret = k
            /\ Risen = {} => result'.ret = None
            /\ (/\ result.op = "check_keystates_changed"
                /\ result.ret # None
                /\ result.ret \in HeldNow) => result'.ret # result.ret ]_vars

\* key 7 was held when the wait began and is still held: the poll that sees
\* 7 and 8 returns 8
C31_Witness ==
    /\ result.op = "check_keystates_changed"
    /\ result.args = << {7, 8} >>
    /\ result.ret = 8
    /\ input_.last_key_states = [k \in 0 .. 15 |-> k \in {7, 8}]

\* C32: when several keys have risen in one poll, the poll returns the
\* lowest of them and the snapshot becomes the full set of keys held now,
\* so the poll after it returns none of the keys that were held in this
\* one, the other risen keys included, while they stay held.
C32_LowestRisingKeyWins ==
    [][ PollOn =>
            /\ Risen # {} =>
                  /\ result'.ret \in Risen
                  /\ \A k \in Risen : result'.ret <= k
            /\ input_'.last_key_states = [k \in 0 .. 15 |-> k \in HeldNow]
            /\ result.op = "check_keystates_changed" =>
                  \A k \in result.args[1] \cap HeldNow : result'.ret # k ]_vars

\* 0 and 15 are held and the poll returned 0: both rose and the lowest won,
\* or 15 was in the snapshot already and is passed over
C32_Witness ==
    /\ result.op = "check_keystates_changed"
    /\ result.args = << {0, 15} >>
    /\ result.ret = 0
    /\ input_.last_key_states = [k \in 0 .. 15 |-> k \in {0, 15}]

\* C33: for a key in 0 .. 15 key_pressed(key) returns whether the backend
\* reports the key as held and key_not_pressed(key) the opposite, so the
\* two answers to the same query are complementary; for a key outside
\* 0 .. 15 both raise KeyError; an Ex9E or ExA1 step whose register holds a
\* value above 15 raises KeyError and leaves the program counter, the
\* registers, memory and the display as they were.
C33_KeyQueriesComplementOrFail ==
    [][ /\ result'.op \in {"key_pressed", "key_not_pressed"} =>
              IF result'.args[1] \in 0 .. 15
              THEN /\ result'.err = NoError
                   /\ result'.ret = ((result'.args[1] \in result'.args[2])
                                        = (result'.op = "key_pressed"))
              ELSE result'.err = KeyError
        /\ (/\ result.op = "key_pressed" /\ result'.op = "key_not_pressed"
            /\ result'.args = result.args /\ result.err = NoError) =>
              result'.ret = ~result.ret
        /\ (/\ StepOn /\ Nib1(Instr) = 14 /\ KK(Instr) \in {158, 161}
            /\ cpu.registers[Nib2(Instr)] > 15) =>
              /\ result'.err = KeyError
              /\ CoreUnchanged ]_vars

\* ExA1 on VF = 16 raised KeyError with the program counter still at the
\* instruction
C33_Witness ==
    /\ result.op = "cycle"
    /\ result.err = KeyError
    /\ cpu.opcode = Word(14, VF_IDX, 10, 1)
    /\ cpu.registers[VF_IDX] = 16
    /\ cpu.pc = ROM_START_IDX + 2

\* the stack has STACK_SIZE slots and the stack pointer is in 0 .. STACK_SIZE
StackInBounds(c) ==
    /\ DOMAIN c.stack = 0 .. STACK_SIZE - 1
    /\ c.sp \in 0 .. STACK_SIZE

Byte(v) == v \in 0 .. 255

\* C35: in every state reached by cycle() and update_timers() calls from
\* the initial state, each of the 16 registers, the delay timer and the
\* sound timer holds an integer in 0 .. 255.
C35_RegistersAndTimersAreBytes ==
    /\ \A r \in 0 .. REGISTER_COUNT - 1 : Byte(cpu.registers[r])
    /\ Byte(cpu.delay_timer)
    /\ Byte(cpu.sound_timer)

\* 0 - 1 wrapped to 255 with the borrow in VF, moved into the delay timer
\* and counted down once
C35_Witness ==
    /\ result.op = "update_timers"
    /\ result.ticked
    /\ cpu.opcode = Word(15, 0, 1, 5)
    /\ cpu.registers[0] = 255
    /\ cpu.registers[1] = 1
    /\ cpu.registers[VF_IDX] = 0
    /\ cpu.delay_timer = 254

\* C36: in every state reached by cycle() calls the index register holds a
\* value in 0 .. 65535, also after repeated Fx1E instructions.
C36_IndexIsSixteenBit == cpu.i \in 0 .. 65535

\* C37: in every state reached by write_byte(), read_byte(), read_word()
\* and load_rom() calls, an image longer than 4096 - 0x200 bytes included,
\* _memory has exactly 4096 bytes, so no byte is stored at or beyond
\* address 4096.
C37_MemoryKeepsItsSize == DOMAIN memory._memory = 0 .. MEMORY_SIZE_IN_BYTES - 1

\* C38: an Fx29 step leaves the index register at 0x050 + 5 * d for some
\* digit d in 0 .. 15, the first byte of a glyph inside 0x050 .. 0x09F,
\* whatever value Vx holds.
C38_FontAddressInsideGlyphTable ==
    [][ (StepOn /\ BitAnd(Instr, 61695) = 61481) =>
            /\ result'.err = NoError
            /\ \E d \in 0 .. 15 : cpu'.i = FONTSET_START_ADDRESS + 5 * d ]_vars

\* the addresses from the index register up to the end of memory
BelowCapacity == cpu.i .. MEMORY_SIZE_IN_BYTES - 1

\* C39: an Fx33, Fx55 or Fx65 step whose addresses index .. index + k run
\* past the end of memory raises MemoryOutOfBoundsError and leaves the
\* program counter as it was, after it has written the digits or registers
\* for the addresses below 4096 (Fx33, Fx55) or loaded the registers from
\* them (Fx65); a Dxyn step whose addresses run past the end of memory
\* raises MemoryOutOfBoundsError and leaves the program counter, the
\* display and every register, VF included, as they were.
C39_FailureAfterPartialStore ==
    [][ /\ (StepOn /\ BitAnd(Instr, 61695) = 61491
                   /\ cpu.i + 2 >= MEMORY_SIZE_IN_BYTES) =>
              /\ result'.err = MemoryOutOfBoundsError
              /\ cpu'.pc = cpu.pc
              /\ \A a \in BelowCapacity :
                    memory'._memory[a]
                        = (cpu.registers[Nib2(Instr)] \div Pow(10, 2 - (a - cpu.i))) % 10
        /\ (StepOn /\ BitAnd(Instr, 61695) = 61525
                   /\ cpu.i + Nib2(Instr) >= MEMORY_SIZE_IN_BYTES) =>
              /\ result'.err = MemoryOutOfBoundsError
              /\ cpu'.pc = cpu.pc
              /\ \A a \in BelowCapacity :
                    memory'._memory[a] = cpu.registers[a - cpu.i]
        /\ (StepOn /\ BitAnd(Instr, 61695) = 61541
                   /\ cpu.i + Nib2(Instr) >= MEMORY_SIZE_IN_BYTES) =>
              /\ result'.err = MemoryOutOfBoundsError
              /\ cpu'.pc = cpu.pc
              /\ \A a \in BelowCapacity :
                    cpu'.registers[a - cpu.i] = memory._memory[a]
        /\ (StepOn /\ Nib1(Instr) = 13
                   /\ cpu.i + Nib4(Instr) > MEMORY_SIZE_IN_BYTES) =>
              /\ result'.err = MemoryOutOfBoundsError
              /\ cpu'.pc = cpu.pc
              /\ display' = display
              /\ cpu'.registers = cpu.registers ]_vars

\* F033 on 255 with the index register at 4094: 2 and 5 are in memory, the
\* third write has raised
C39_Witness ==
    /\ result.op = "cycle"
    /\ result.err = MemoryOutOfBoundsError
    /\ cpu.opcode = Word(15, 0, 3, 3)
    /\ cpu.registers[0] = 255
    /\ cpu.i = MEMORY_SIZE_IN_BYTES - 2
    /\ cpu.pc = ROM_START_IDX + 4
    /\ memory._memory[MEMORY_SIZE_IN_BYTES - 2] = 2
    /\ memory._memory[MEMORY_SIZE_IN_BYTES - 1] = 5

\* C40: in the loop of emulate() the display is presented and the timers
\* are advanced together, the presentation first, on the pass that is the
\* cpu_cycles_max-th (TARGET_IPS // 60) since the last presentation and on
\* no other, and the count of cycles is 0 again by then; a pass made while
\* the CPU waits for a key counts as any other, the display is presented
\* and the timers count down during the wait.
C40_PresentAndTickEveryMaxCycles ==
    [][ /\ result'.op = "emulate_sleep"
            => IF result.iterations = TARGET_IPS \div 60
               THEN emulator'.cpu_cycles = 0 /\ emulator'.at = "refresh"
               ELSE /\ emulator'.cpu_cycles = result.iterations
                    /\ emulator'.at = "cycle"
        /\ result'.op = "emulate_refresh"
            => /\ result.op = "emulate_sleep"
               /\ result.iterations = TARGET_IPS \div 60
               /\ emulator.cpu_cycles = 0
               /\ result'.printed = Printed(display)
               /\ display'.prev_screen = display.screen
               /\ cpu' = cpu
        /\ result.op = "emulate_refresh" => result'.op = "emulate_update_timers"
        /\ result'.op = "emulate_update_timers"
            => /\ result.op = "emulate_refresh"
               /\ emulator'.cpu_cycles = 0
               /\ result'.ticked
               /\ cpu'.delay_timer = IF cpu.delay_timer > 0
                                     THEN cpu.delay_timer - 1 ELSE 0
               /\ cpu'.sound_timer = IF cpu.sound_timer > 0
                                     THEN cpu.sound_timer - 1 ELSE 0
               /\ cpu'.waiting_for_key = cpu.waiting_for_key
               /\ display' = display ]_vars

\* the second presentation, made while the CPU waits for a key: the glyph
\* drawn since the first one is shown and the delay timer, set to 5, is at 3
C40_Witness ==
    /\ result.op = "emulate_update_timers"
    /\ cpu.waiting_for_key
    /\ cpu.delay_timer = 3
    /\ display.prev_screen = display.screen
    /\ display.screen # DisplayInit.screen

=============================================================================
